---------------------------- MODULE Spec2Model ----------------------------
(***************************************************************************)
(* VoxAlpha answer verification: text normalisation, Levenshtein distance, *)
(* the similarity score in IEEE-754 double arithmetic, candidate           *)
(* reduction, best-match selection and the two decision policies of        *)
(* script.js (class VoxAlpha).                                             *)
(*                                                                         *)
(* A string is a sequence of characters; a character is a one-token        *)
(* string.  The non-ASCII characters of the program are written as the     *)
(* tokens "ae" (a umlaut), "oe", "ue", "AE", "OE", "UE" and "sz" (sharp s);*)
(* " " is the blank.                                                       *)
(***************************************************************************)
EXTENDS Integers, Sequences, FiniteSets, TLC

(***************************************************************************)
(* Bounds of the model.                                                    *)
(***************************************************************************)
\* longest transcript drawn from TranscriptChars
MaxLen == 2
\* longest city list
MaxCities == 2
\* most suspended calls and timers pending at once: setLanguage calls and
\* stopRecording calls at their awaits, advancement timers
MaxPending == 2
\* longest string handed to the scorer in the scorer specification
MaxScoreLen == 3
\* longest raw text given to normalizeText on its own
MaxRawLen == 2
\* most start signals, stop signals and chunks of one run of the capture
MaxEvents == 6
\* longest buffer of samples enumerated sample by sample
MaxSamples == 3
\* longest input of resample when every pair of rates is tried
MaxFrames == 6
\* seconds of the clock during one call of transcribe
MaxClock == 32
\* most output lines of the recognizer during one call of transcribe
MaxOutputs == 2
\* releases deployed one after the other while the page is open
MaxVersions == 3

(***************************************************************************)
(* Characters and String.prototype helpers.                                *)
(***************************************************************************)
UpperLetters == <<"A","B","C","D","E","F","G","H","I","J","K","L","M",
                  "N","O","P","Q","R","S","T","U","V","W","X","Y","Z",
                  "AE","OE","UE">>

LowerLetters == <<"a","b","c","d","e","f","g","h","i","j","k","l","m",
                  "n","o","p","q","r","s","t","u","v","w","x","y","z",
                  "ae","oe","ue">>

\* the characters matched by [a-z0-9]
AsciiAlnum == {LowerLetters[i] : i \in 1..26}
                \cup {"0","1","2","3","4","5","6","7","8","9"}

WhiteSpace == {" "}

\* String.prototype.toLowerCase, one character
toLowerChar(c) ==
    IF \E i \in 1..Len(UpperLetters) : UpperLetters[i] = c
    THEN LowerLetters[CHOOSE i \in 1..Len(UpperLetters) : UpperLetters[i] = c]
    ELSE c

toLowerCase(s) == [i \in 1..Len(s) |-> toLowerChar(s[i])]

RECURSIVE trimStart(_)
trimStart(s) ==
    IF s # <<>> /\ Head(s) \in WhiteSpace THEN trimStart(Tail(s)) ELSE s

RECURSIVE trimEnd(_)
trimEnd(s) ==
    IF s # <<>> /\ s[Len(s)] \in WhiteSpace
    THEN trimEnd(SubSeq(s, 1, Len(s) - 1)) ELSE s

\* String.prototype.trim
trim(s) == trimEnd(trimStart(s))

\* the replacements of normalizeText for one character without the last one
foldCharKeeping(c) ==
    CASE c = "ae" -> <<"a">>
      [] c = "oe" -> <<"o">>
      [] c = "ue" -> <<"u">>
      [] c = "sz" -> <<"s","s">>
      [] OTHER    -> <<c>>

RECURSIVE foldAllKeeping(_)
foldAllKeeping(s) ==
    IF s = <<>> THEN <<>>
    ELSE foldCharKeeping(Head(s)) \o foldAllKeeping(Tail(s))

\* the last replacement without its g flag: only the first character
\* outside a-z0-9 is removed
foldAllStripFirst(s) ==
    LET kept == foldAllKeeping(s)
        bad  == {i \in 1..Len(kept) : kept[i] \notin AsciiAlnum}
    IN  IF bad = {} THEN kept
        ELSE LET first == CHOOSE i \in bad : \A j \in bad : i <= j
             IN  SubSeq(kept, 1, first - 1) \o SubSeq(kept, first + 1, Len(kept))

\* the replacement normalizeText makes for one (lowercased) character:
\* .replace(/ae/g,'a') .replace(/oe/g,'o') .replace(/ue/g,'u')
\* .replace(/sz/g,'ss') .replace(/[^a-z0-9]/g,'')
foldChar(c) ==
    LET folded == CASE c = "ae" -> <<"a">>
                    [] c = "oe" -> <<"o">>
                    [] c = "ue" -> <<"u">>
                    [] c = "sz" -> <<"s","s">>
                    [] OTHER    -> <<c>>
    IN  SelectSeq(folded, LAMBDA x : x \in AsciiAlnum)

RECURSIVE foldAll(_)
foldAll(s) == IF s = <<>> THEN <<>> ELSE foldChar(Head(s)) \o foldAll(Tail(s))

\* normalizeText as the older script and the unit tests have it:
\* .toLowerCase().trim().replace(/[^a-z0-9aeoeuesz]/g, '') with the umlauts
\* and the sharp s in the class of kept characters
normalizeTextPreserving(text) ==
    SelectSeq(trim(toLowerCase(text)),
              LAMBDA x : x \in AsciiAlnum \cup {"ae", "oe", "ue", "sz"})

\* VoxAlpha.normalizeText
normalizeText(text) == foldAll(trim(toLowerCase(text)))

\* String.prototype.charAt(0): the first character, or the empty string
charAt0(s) == IF s = <<>> THEN <<>> ELSE <<s[1]>>

(***************************************************************************)
(* VoxAlpha.levenshteinDistance: the dynamic programme, row by row.        *)
(***************************************************************************)
Min2(x, y) == IF x <= y THEN x ELSE y

Min3(x, y, z) == Min2(x, Min2(y, z))

Max2(x, y) == IF x >= y THEN x ELSE y

Abs(x) == IF x < 0 THEN 0 - x ELSE x

\* a substitution that costs nothing
levCellFreeSubstitution(c1, c2, diag, up, left) ==
    IF c1 = c2 THEN diag ELSE Min3(up + 1, left + 1, diag)

\* a substitution that costs two
levCellSubstitutionTwo(c1, c2, diag, up, left) ==
    IF c1 = c2 THEN diag ELSE Min3(up + 1, left + 1, diag + 2)

\* one cell dp[i][j], given dp[i-1][j-1], dp[i-1][j] and dp[i][j-1]
levCell(c1, c2, diag, up, left) ==
    IF c1 = c2 THEN diag ELSE Min3(up + 1, left + 1, diag + 1)

\* row i of the table from row i-1 (prev); position j+1 of a row holds
\* dp[i][j], and cur holds the cells of row i filled in so far
RECURSIVE levRow(_, _, _, _)
levRow(c1, str2, prev, cur) ==
    LET j == Len(cur)
    IN  IF j > Len(str2) THEN cur
        ELSE levRow(c1, str2, prev,
                    Append(cur, levCell(c1, str2[j], prev[j], prev[j + 1], cur[j])))

\* the table dp, rows 0..Len(str1), from the rows filled in so far
RECURSIVE levTable(_, _, _)
levTable(str1, str2, dp) ==
    LET i == Len(dp)
    IN  IF i > Len(str1) THEN dp
        ELSE levTable(str1, str2,
                      Append(dp, levRow(str1[i], str2, dp[i], <<i>>)))

\* dp[0][j] = j; dp[i][0] = i; the loops; return dp[m][n]
levenshteinDistance(str1, str2) ==
    levTable(str1, str2,
             <<[j \in 1..(Len(str2) + 1) |-> j - 1]>>)[Len(str1) + 1][Len(str2) + 1]

(***************************************************************************)
(* JavaScript Number arithmetic (IEEE-754 binary64, round to nearest, ties *)
(* to even) on the values the scorer produces.  A finite double is         *)
(*     (-1)^neg * (m[1]*2^40 + m[2]*2^20 + m[3]) * 2^-60                   *)
(* with m[2], m[3] < 2^20; every double the scorer produces for strings of *)
(* fewer than 128 characters is on this grid.  NaN is a value of its own.  *)
(***************************************************************************)
Limb == 1024 * 1024

RECURSIVE Pow2(_)
Pow2(k) == IF k = 0 THEN 1 ELSE 2 * Pow2(k - 1)

RECURSIVE BitLen(_)
BitLen(x) == IF x = 0 THEN 0 ELSE 1 + BitLen(x \div 2)

\* number of significant bits of a magnitude
MagBits(m) ==
    IF m[1] > 0 THEN 40 + BitLen(m[1])
    ELSE IF m[2] > 0 THEN 20 + BitLen(m[2])
    ELSE BitLen(m[3])

\* carry the two low limbs into range
MagCarry(hi, mid, lo) ==
    LET mid2 == mid + (lo \div Limb)
    IN  <<hi + (mid2 \div Limb), mid2 % Limb, lo % Limb>>

MagLess(a, b) ==
    \/ a[1] < b[1]
    \/ a[1] = b[1] /\ a[2] < b[2]
    \/ a[1] = b[1] /\ a[2] = b[2] /\ a[3] < b[3]

MagAdd(a, b) == MagCarry(a[1] + b[1], a[2] + b[2], a[3] + b[3])

\* a - b for a >= b
MagSub(a, b) ==
    LET lo   == a[3] - b[3]
        bor1 == IF lo < 0 THEN 1 ELSE 0
        mid  == a[2] - b[2] - bor1
        bor2 == IF mid < 0 THEN 1 ELSE 0
    IN  <<a[1] - b[1] - bor2, mid + bor2 * Limb, lo + bor1 * Limb>>

\* round an exact magnitude (sticky: a non-zero part below the grid was cut
\* off) to 53 significant bits, nearest, ties to even
Round53(m, sticky) ==
    LET k == MagBits(m) - 53
    IN  IF k <= 0 THEN m
        ELSE LET P    == Pow2(k)
                 low  == m[3] % P
                 base == m[3] - low
                 half == P \div 2
                 up   == \/ low > half
                         \/ low = half /\ (sticky \/ (base \div P) % 2 = 1)
             IN  MagCarry(m[1], m[2], base + (IF up THEN P ELSE 0))

NaN == [nan |-> TRUE, neg |-> FALSE, m |-> <<0, 0, 0>>]

Finite(neg, m) == [nan |-> FALSE, neg |-> neg /\ m # <<0, 0, 0>>, m |-> m]

\* the double of an integer-valued Number n, |n| < 2048
FromInt(n) == Finite(n < 0, <<Abs(n) * Limb, 0, 0>>)

\* n / d for integer-valued Numbers n >= 0 and d >= 0; 0/0 is NaN
\* (n > 0 with d = 0 would be Infinity; the scorer never divides that way
\* because distance <= maxLength)
FDiv(n, d) ==
    IF d = 0 THEN NaN
    ELSE LET hi == (n * Limb) \div d
             r1 == (n * Limb) % d
             mi == (r1 * Limb) \div d
             r2 == (r1 * Limb) % d
             lo == (r2 * Limb) \div d
             r3 == (r2 * Limb) % d
         IN  Finite(FALSE, Round53(<<hi, mi, lo>>, r3 # 0))

FNeg(x) == IF x.nan THEN NaN ELSE Finite(~x.neg, x.m)

FAdd(x, y) ==
    IF x.nan \/ y.nan THEN NaN
    ELSE IF x.neg = y.neg THEN Finite(x.neg, Round53(MagAdd(x.m, y.m), FALSE))
    ELSE IF MagLess(x.m, y.m) THEN Finite(y.neg, Round53(MagSub(y.m, x.m), FALSE))
    ELSE Finite(x.neg, Round53(MagSub(x.m, y.m), FALSE))

\* x - y
FSub(x, y) == FAdd(x, FNeg(y))

\* k * x for an integer-valued Number 0 <= k < 512
FMulInt(k, x) ==
    IF x.nan THEN NaN
    ELSE Finite(x.neg /\ k # 0,
                Round53(MagCarry(k * x.m[1], k * x.m[2], k * x.m[3]), FALSE))

\* x < y; every comparison with NaN is false
FLess(x, y) ==
    /\ ~x.nan /\ ~y.nan
    /\ \/ x.neg /\ ~y.neg
       \/ ~x.neg /\ ~y.neg /\ MagLess(x.m, y.m)
       \/ x.neg /\ y.neg /\ MagLess(y.m, x.m)

FGreater(x, y) == FLess(y, x)

\* x === y
FEq(x, y) == ~x.nan /\ ~y.nan /\ x.neg = y.neg /\ x.m = y.m

\* x >= y
FGeq(x, y) == FGreater(x, y) \/ FEq(x, y)

\* Math.min(x, y)
MathMin(x, y) == IF x.nan \/ y.nan THEN NaN ELSE IF FLess(y, x) THEN y ELSE x

(***************************************************************************)
(* Number and Float32Array arithmetic of the audio path: IEEE-754 binary64 *)
(* with round to nearest, ties to even, and its rounding to binary32 when  *)
(* a value is stored in a Float32Array.  A finite number is                *)
(*     (-1)^neg * man * 2^exp                                              *)
(* with man a natural number held as its digits in base 2^15, lowest       *)
(* first, and odd unless the number is zero.  Subnormals, overflow and the *)
(* sign of zero are left out: the audio path divides by positive numbers   *)
(* only and its magnitudes stay between 2^-100 and 2^100.                  *)
(***************************************************************************)
Base == 32768

RECURSIVE NatTrim(_)
NatTrim(a) ==
    IF a # <<>> /\ a[Len(a)] = 0 THEN NatTrim(SubSeq(a, 1, Len(a) - 1)) ELSE a

RECURSIVE NatOf(_)
NatOf(n) == IF n = 0 THEN <<>> ELSE <<n % Base>> \o NatOf(n \div Base)

RECURSIVE NatToInt(_)
NatToInt(a) == IF a = <<>> THEN 0 ELSE a[1] + Base * NatToInt(Tail(a))

NatDigit(a, i) == IF i <= Len(a) THEN a[i] ELSE 0

NatLess(a, b) ==
    \/ Len(a) < Len(b)
    \/ /\ Len(a) = Len(b)
       /\ \E i \in 1..Len(a) :
              /\ a[i] < b[i]
              /\ \A j \in (i + 1)..Len(a) : a[j] = b[j]

NatAdd(a, b) ==
    LET n == Max2(Len(a), Len(b))
        carry[i \in 0..n] ==
            IF i = 0 THEN 0
            ELSE (NatDigit(a, i) + NatDigit(b, i) + carry[i - 1]) \div Base
    IN  NatTrim([i \in 1..(n + 1) |->
                    IF i = n + 1 THEN carry[n]
                    ELSE (NatDigit(a, i) + NatDigit(b, i) + carry[i - 1]) % Base])

\* a - b for a >= b
NatSub(a, b) ==
    LET n == Len(a)
        borrow[i \in 0..n] ==
            IF i = 0 THEN 0
            ELSE IF a[i] - NatDigit(b, i) - borrow[i - 1] < 0 THEN 1 ELSE 0
    IN  NatTrim([i \in 1..n |->
                    a[i] - NatDigit(b, i) - borrow[i - 1] + borrow[i] * Base])

\* a * k for 0 <= k < Base
NatMulSmall(a, k) ==
    LET n == Len(a)
        carry[i \in 0..n] ==
            IF i = 0 THEN 0 ELSE (a[i] * k + carry[i - 1]) \div Base
    IN  NatTrim([i \in 1..(n + 1) |->
                    IF i = n + 1 THEN carry[n]
                    ELSE (a[i] * k + carry[i - 1]) % Base])

\* a * Base^d
NatShiftDigits(a, d) == IF a = <<>> THEN <<>> ELSE [i \in 1..d |-> 0] \o a

NatMul(a, b) ==
    LET sum[i \in 0..Len(b)] ==
            IF i = 0 THEN <<>>
            ELSE NatAdd(sum[i - 1],
                        NatShiftDigits(NatMulSmall(a, b[i]), i - 1))
    IN  sum[Len(b)]

\* a * 2^k
NatShl(a, k) == NatShiftDigits(NatMulSmall(a, Pow2(k % 15)), k \div 15)

\* the quotient of a by d, 0 < d < Base
NatDivSmall(a, d) ==
    LET n == Len(a)
        rem[i \in 1..(n + 1)] ==
            IF i = n + 1 THEN 0 ELSE (rem[i + 1] * Base + a[i]) % d
    IN  NatTrim([i \in 1..n |-> (rem[i + 1] * Base + a[i]) \div d])

\* floor(a / 2^k)
NatShr(a, k) ==
    IF k \div 15 >= Len(a) THEN <<>>
    ELSE NatDivSmall(SubSeq(a, k \div 15 + 1, Len(a)), Pow2(k % 15))

\* bit i of a, the lowest bit being bit 0
NatBit(a, i) == (NatDigit(a, i \div 15 + 1) \div Pow2(i % 15)) % 2

\* the k lowest bits of a are zero
NatLowZero(a, k) == \A i \in 0..(k - 1) : NatBit(a, i) = 0

NatBits(a) == IF a = <<>> THEN 0 ELSE 15 * (Len(a) - 1) + BitLen(a[Len(a)])

\* number of zero bits below the lowest one bit of a # 0
RECURSIVE NatTrailing(_, _)
NatTrailing(a, i) == IF NatBit(a, i) = 1 THEN i ELSE NatTrailing(a, i + 1)

\* the quotient digit of r by b and the remainder, for r < b * Base and a b
\* whose highest digit has all its 15 bits: an estimate from the leading
\* digits that never exceeds the quotient, repeated on what is left
RECURSIVE NatQuotDigit(_, _, _)
NatQuotDigit(r, b, q) ==
    LET n   == Len(b)
        est == (NatDigit(r, n + 1) * Base + NatDigit(r, n)) \div (b[n] + 1)
    IN  IF est > 0
        THEN NatQuotDigit(NatSub(r, NatMulSmall(b, est)), b, q + est)
        ELSE IF NatLess(r, b) THEN [q |-> q, r |-> r]
        ELSE NatQuotDigit(NatSub(r, b), b, q + 1)

\* long division of the i highest digits left of a by b
RECURSIVE NatDivStep(_, _, _, _, _)
NatDivStep(a, b, i, q, r) ==
    IF i = 0 THEN [q |-> q, r |-> r]
    ELSE LET d == NatQuotDigit(NatTrim(<<a[i]>> \o r), b, 0)
         IN  NatDivStep(a, b, i - 1, NatTrim(<<d.q>> \o q), d.r)

\* quotient and remainder of a by b, the highest digit of b at least Base/2
NatDivMod(a, b) == NatDivStep(a, b, Len(a), <<>>, <<>>)

NotANumber == [nan |-> TRUE, neg |-> FALSE, man |-> <<>>, exp |-> 0]

\* the number (-1)^neg * man * 2^exp in its canonical form
Num(neg, man, exp) ==
    IF man = <<>>
    THEN [nan |-> FALSE, neg |-> FALSE, man |-> <<>>, exp |-> 0]
    ELSE LET z == NatTrailing(man, 0)
         IN  [nan |-> FALSE, neg |-> neg, man |-> NatShr(man, z), exp |-> exp + z]

\* man * 2^exp rounded to p significant bits, nearest, ties to even;
\* sticky: a non-zero part below man was cut off
RoundBits(neg, man, exp, sticky, p) ==
    LET k == NatBits(man) - p
    IN  IF k <= 0 THEN Num(neg, man, exp)
        ELSE LET q    == NatShr(man, k)
                 half == NatBit(man, k - 1) = 1
                 rest == sticky \/ ~NatLowZero(man, k - 1)
                 up   == half /\ (rest \/ NatBit(q, 0) = 1)
             IN  Num(neg, IF up THEN NatAdd(q, <<1>>) ELSE q, exp + k)

\* a Number from an integer
NumOfInt(n) == Num(n < 0, NatOf(Abs(n)), 0)

NumNeg(x) == IF x.nan THEN NotANumber ELSE Num(~x.neg, x.man, x.exp)

NumAbs(x) == IF x.nan THEN NotANumber ELSE Num(FALSE, x.man, x.exp)

\* x + y as a real number, before rounding
ExactSum(x, y) ==
    LET e  == Min2(x.exp, y.exp)
        xm == NatShl(x.man, x.exp - e)
        ym == NatShl(y.man, y.exp - e)
    IN  IF x.neg = y.neg THEN [neg |-> x.neg, man |-> NatAdd(xm, ym), exp |-> e]
        ELSE IF NatLess(xm, ym)
        THEN [neg |-> y.neg, man |-> NatSub(ym, xm), exp |-> e]
        ELSE [neg |-> x.neg, man |-> NatSub(xm, ym), exp |-> e]

\* x + y
NumAdd(x, y) ==
    IF x.nan \/ y.nan THEN NotANumber
    ELSE LET s == ExactSum(x, y) IN RoundBits(s.neg, s.man, s.exp, FALSE, 53)

\* x - y
NumSub(x, y) == NumAdd(x, NumNeg(y))

\* x * y
NumMul(x, y) ==
    IF x.nan \/ y.nan THEN NotANumber
    ELSE RoundBits(x.neg # y.neg, NatMul(x.man, y.man), x.exp + y.exp, FALSE, 53)

\* x / y for y # 0; 0 / 0 is NaN
NumDiv(x, y) ==
    IF x.nan \/ y.nan \/ y.man = <<>> THEN NotANumber
    ELSE LET s  == Max2(0, 55 + NatBits(y.man) - NatBits(x.man))
             t  == (15 - (NatBits(y.man) % 15)) % 15
             qr == NatDivMod(NatShl(x.man, s + t), NatShl(y.man, t))
         IN  RoundBits(x.neg # y.neg, qr.q, x.exp - y.exp - s, qr.r # <<>>, 53)

\* x < y; every comparison with NaN is false
NumLess(x, y) ==
    /\ ~x.nan /\ ~y.nan
    /\ LET d == ExactSum(x, NumNeg(y)) IN d.neg /\ d.man # <<>>

NumGreater(x, y) == NumLess(y, x)

\* Math.floor of a number >= 0, as an integer
MathFloor(x) ==
    IF x.exp >= 0 THEN NatToInt(NatShl(x.man, x.exp))
    ELSE NatToInt(NatShr(x.man, -x.exp))

\* Math.round of a number >= 0, as an integer: floor(x + 0.5) exactly
MathRound(x) == (MathFloor(Num(x.neg, x.man, x.exp + 1)) + 1) \div 2

\* the value a Float32Array element holds after x was stored in it
Fround(x) == IF x.nan THEN NotANumber ELSE RoundBits(x.neg, x.man, x.exp, FALSE, 24)

(***************************************************************************)
(* AudioProcessor: the buffer a capture returns.  A Float32Array is a      *)
(* sequence of numbers that Fround leaves unchanged.                       *)
(***************************************************************************)
NumZero == NumOfInt(0)

NumOne == NumOfInt(1)

\* the literal 0.1
Tenth == NumDiv(NumOfInt(1), NumOfInt(10))

\* the literal 0.01
Hundredth == NumDiv(NumOfInt(1), NumOfInt(100))

targetSampleRate == 16000

\* result.set(chunk, offset) for each chunk of this.samples
RECURSIVE concatenate(_)
concatenate(chunks) ==
    IF chunks = <<>> THEN <<>>
    ELSE Head(chunks) \o concatenate(Tail(chunks))

\* let max = 0; ... const abs = Math.abs(result[i]); if (abs > max) max = abs
RECURSIVE peakFrom(_, _, _)
peakFrom(result, i, max) ==
    IF i > Len(result) THEN max
    ELSE peakFrom(result, i + 1,
                  IF NumGreater(NumAbs(result[i]), max)
                  THEN NumAbs(result[i]) ELSE max)

peak(result) == peakFrom(result, 1, NumZero)

\* the gain step without its test of quietness
applyGainAlways(result) ==
    LET max == peak(result)
    IN  IF NumGreater(max, NumZero)
        THEN LET gain == NumDiv(Tenth, max)
             IN  [i \in 1..Len(result) |-> Fround(NumMul(result[i], gain))]
        ELSE result

\* the gain step: if (max < 0.01 && max > 0) { gain = 0.1 / max;
\* result[i] *= gain }
applyGain(result) ==
    LET max == peak(result)
    IN  IF NumLess(max, Hundredth) /\ NumGreater(max, NumZero)
        THEN LET gain == NumDiv(Tenth, max)
             IN  [i \in 1..Len(result) |-> Fround(NumMul(result[i], gain))]
        ELSE result

\* the sample at the source index, without interpolation
resampleAtNearest(samples, ratio, i) ==
    LET srcIndexInt == MathFloor(NumMul(NumOfInt(i), ratio))
    IN  IF srcIndexInt < Len(samples) THEN samples[srcIndexInt + 1]
        ELSE NotANumber

\* the body of the loop of resample for the index i (from 0); reading past
\* the end of samples gives undefined, which a Float32Array holds as NaN
resampleAt(samples, ratio, i) ==
    LET srcIndex     == NumMul(NumOfInt(i), ratio)
        srcIndexInt  == MathFloor(srcIndex)
        srcIndexFrac == NumSub(srcIndex, NumOfInt(srcIndexInt))
    IN  IF srcIndexInt + 1 < Len(samples)
        THEN Fround(NumAdd(NumMul(samples[srcIndexInt + 1],
                                  NumSub(NumOne, srcIndexFrac)),
                           NumMul(samples[srcIndexInt + 2], srcIndexFrac)))
        ELSE IF srcIndexInt < Len(samples) THEN samples[srcIndexInt + 1]
        ELSE NotANumber

\* resample with one output sample too many
resampleOneMore(samples, fromRate, toRate) ==
    IF fromRate = toRate THEN samples
    ELSE LET ratio     == NumDiv(NumOfInt(fromRate), NumOfInt(toRate))
             newLength == MathRound(NumDiv(NumOfInt(Len(samples)), ratio)) + 1
         IN  [i \in 1..newLength |-> resampleAt(samples, ratio, i - 1)]

\* AudioProcessor.resample
resample(samples, fromRate, toRate) ==
    IF fromRate = toRate THEN samples
    ELSE LET ratio     == NumDiv(NumOfInt(fromRate), NumOfInt(toRate))
             newLength == MathRound(NumDiv(NumOfInt(Len(samples)), ratio))
         IN  [i \in 1..newLength |-> resampleAt(samples, ratio, i - 1)]

\* AudioProcessor.stopRecording on the processor ap: the processor after the
\* call and the buffer returned
audioStopRecording(ap) ==
    IF ~ap.recording THEN [ap |-> ap, returned |-> <<>>]
    ELSE LET stopped == [ap EXCEPT !.recording = FALSE, !.processor = FALSE]
             result  == concatenate(ap.samples)
         IN  IF Len(result) = 0 THEN [ap |-> stopped, returned |-> <<>>]
             ELSE [ap |-> [stopped EXCEPT !.samples = <<>>],
                   returned |-> resample(applyGain(result), ap.sampleRate,
                                         targetSampleRate)]

\* AudioProcessor.startRecording on a processor with stream and context
audioStartRecording(ap) ==
    IF ap.recording THEN ap
    ELSE [ap EXCEPT !.samples = <<>>, !.recording = TRUE, !.processor = TRUE]

\* the onaudioprocess handler without its test of this.recording
audioProcessAlways(ap, chunk) ==
    [ap EXCEPT !.samples = Append(ap.samples, chunk)]

\* the onaudioprocess handler on the channel data chunk
audioProcess(ap, chunk) ==
    IF ap.recording THEN [ap EXCEPT !.samples = Append(ap.samples, chunk)]
    ELSE ap

(***************************************************************************)
(* WhisperSTT.transcribe on an initialized recognizer, up to the call of   *)
(* the recognizer.                                                         *)
(***************************************************************************)
minSamples == 16000

\* the buffer as it was given
transcribePadNone(data) == data

\* if (audioData.length < minSamples) { padded = new Float32Array(
\* minSamples); padded.set(audioData, 0); audioData = padded }
transcribePad(data) ==
    IF Len(data) < minSamples
    THEN [i \in 1..minSamples |-> IF i <= Len(data) THEN data[i] ELSE NumZero]
    ELSE data

\* Math.max(...audioData.map(Math.abs)) === 0
maxLevelIsZero(data) == \A i \in 1..Len(data) : NumAbs(data[i]) = NumZero

\* what transcribe does with the buffer: it returns '' for an empty one,
\* throws 'Audio is silent' for one of zeros, and otherwise passes the
\* padded buffer to Module.full_default
transcribeHandOver(data) ==
    IF Len(data) = 0 THEN [kind |-> "empty", out |-> <<>>, rate |-> 0]
    ELSE IF maxLevelIsZero(transcribePad(data))
    THEN [kind |-> "silent", out |-> <<>>, rate |-> 0]
    ELSE [kind |-> "handed", out |-> transcribePad(data), rate |-> 0]

(***************************************************************************)
(* The two similarity scores.                                              *)
(***************************************************************************)
One == FromInt(1)

Zero == FromInt(0)

\* the literal 0.05: the double nearest to 1/20
lengthPenaltyRate == FDiv(1, 20)

\* a threshold of 0.6 in place of 0.7
thresholdSixTenths == FDiv(6, 10)

\* the literal 0.7: the double nearest to 7/10
threshold == FDiv(7, 10)

\* the city score without the length penalty
citySimilarityNoPenalty(distance, len1, len2) ==
    MathMin(One, FSub(One, FDiv(distance, Max2(len1, len2))))

\* the city score with the length penalty added instead of subtracted
citySimilarityPenaltyAdded(distance, len1, len2) ==
    MathMin(One, FAdd(FSub(One, FDiv(distance, Max2(len1, len2))),
                      FMulInt(Abs(len1 - len2), lengthPenaltyRate)))

\* the city score with distance / maxLength truncated to an integer
citySimilarityTruncated(distance, len1, len2) ==
    IF Max2(len1, len2) = 0 THEN NaN
    ELSE MathMin(One, FSub(FSub(One, FromInt(distance \div Max2(len1, len2))),
                           FMulInt(Abs(len1 - len2), lengthPenaltyRate)))

\* checkAnswerWithCities, loop body: from distance and the two lengths
\*   similarity = 1 - (distance / maxLength)
\*   similarity -= lengthDiff * 0.05
\*   similarity = Math.min(1.0, similarity)
citySimilarityOf(distance, len1, len2) ==
    LET maxLength     == Max2(len1, len2)
        similarity    == FSub(One, FDiv(distance, maxLength))
        lengthDiff    == Abs(len1 - len2)
        lengthPenalty == FMulInt(lengthDiff, lengthPenaltyRate)
    IN  MathMin(One, FSub(similarity, lengthPenalty))

citySimilarity(normalized, normalizedCity) ==
    citySimilarityOf(levenshteinDistance(normalized, normalizedCity),
                     Len(normalized), Len(normalizedCity))

\* the single-word score computed like the city score
singleSimilarityPenalized(normalized, expected) ==
    citySimilarity(normalized, expected)

\* checkAnswerSingle: similarity = 1 - (distance / maxLength)
singleSimilarity(normalized, expected) ==
    LET distance  == levenshteinDistance(normalized, expected)
        maxLength == Max2(Len(normalized), Len(expected))
    IN  FSub(One, FDiv(distance, maxLength))

(***************************************************************************)
(* Data the application loads at start-up.                                 *)
(***************************************************************************)
Alpha == <<"A","l","p","h","a">>

Charlie == <<"C","h","a","r","l","i","e">>

Bonn == <<"B","o","n","n">>

Bern == <<"B","e","r","n">>

Bautzen == <<"B","a","u","t","z","e","n">>

Koeln == <<"K","oe","l","n">>

UmlautAachen == <<"U","m","l","a","u","t"," ","A","a","c","h","e","n">>

Eszett == <<"E","s","z","e","t","t">>

Languages == {"en", "de"}

Modes == {"input", "output"}

\* this.alphabets after loadAlphabets: per language, the challenges
\* {letter, word} its alphabet yields.  data/alphabets.json is fetched at
\* run time; this is a sample of entries, a plain city for the German "B",
\* an Umlaut entry and the entry of the sharp s among them.
alphabets ==
    [en |-> {[letter |-> <<"A">>, word |-> Alpha],
             [letter |-> <<"C">>, word |-> Charlie]},
     de |-> {[letter |-> <<"B">>, word |-> Bonn],
             [letter |-> <<"AE">>, word |-> UmlautAachen],
             [letter |-> <<"sz">>, word |-> Eszett]}]

\* lines of a sample german-cities.txt, in the order of the file
CityPool == <<Bautzen, Bern, Bonn, Koeln>>

\* the lines of file at the positions in keep, in the order of the file
linesAt(file, keep) ==
    LET upTo[i \in 0..Len(file)] ==
            IF i = 0 THEN <<>>
            ELSE IF i \in keep THEN Append(upTo[i - 1], file[i])
            ELSE upTo[i - 1]
    IN  upTo[Len(file)]

RECURSIVE SeqsUpTo(_, _)
SeqsUpTo(S, n) ==
    IF n = 0 THEN {<<>>}
    ELSE LET shorter == SeqsUpTo(S, n - 1)
         IN  shorter \cup {Append(s, x) : s \in shorter, x \in S}

\* this.germanCities after loadGermanCities: the non-empty trimmed lines of
\* german-cities.txt, here up to MaxCities lines of the sample file, or the
\* empty list when the load failed
CityLists ==
    {linesAt(CityPool, keep) :
        keep \in {k \in SUBSET (1..Len(CityPool)) : Cardinality(k) <= MaxCities}}

\* characters of the transcripts that are enumerated exhaustively
TranscriptChars == {"x"}

\* transcripts the recognizer may return: every string over TranscriptChars
\* up to MaxLen (the empty one included) and some sample utterances
Transcripts ==
    SeqsUpTo(TranscriptChars, MaxLen)
        \cup {<<"a","l","f","a">>, <<"b","r","a","v","o">>,
              <<"c","h","a","r","l">>, <<"b">>, <<"b","u","n">>,
              <<" ","B","o","n","n",".">>, <<"!">>,
              <<"e","s","z","e","t","t","!">>, <<" ","A","L","P","H","A">>}

(***************************************************************************)
(* checkAnswer and its two policies.  A value that may be undefined is a   *)
(* sequence of at most one element.                                        *)
(***************************************************************************)
\* String.prototype.includes
strIncludes(s, sub) ==
    \E i \in 0..(Len(s) - Len(sub)) : SubSeq(s, i + 1, i + Len(sub)) = sub

\* Array.prototype.includes
arrIncludes(arr, x) == \E i \in 1..Len(arr) : arr[i] = x

\* candidateCities: the cities whose normalized first character is the
\* normalized challenge letter
candidateCities(cities, letter) ==
    SelectSeq(cities,
              LAMBDA city : normalizeText(charAt0(city)) = normalizeText(letter))

\* the filtered list searched even when it is empty
citiesToSearchNoFallback(cities, letter) == candidateCities(cities, letter)

\* citiesToSearch: the filtered list, or the whole list when it is empty
citiesToSearch(cities, letter) ==
    IF Len(candidateCities(cities, letter)) > 0
    THEN candidateCities(cities, letter)
    ELSE cities

\* one pass of the scoring loop over cities[i..]
RECURSIVE bestScan(_, _, _, _, _)
bestScan(cities, normalized, i, bestMatches, bestSimilarity) ==
    IF i > Len(cities)
    THEN [bestMatches |-> bestMatches, bestSimilarity |-> bestSimilarity]
    ELSE LET city       == cities[i]
             similarity == citySimilarity(normalized, normalizeText(city))
         IN  IF FGreater(similarity, bestSimilarity)
             THEN bestScan(cities, normalized, i + 1, <<city>>, similarity)
             ELSE IF FEq(similarity, bestSimilarity)
             THEN bestScan(cities, normalized, i + 1,
                           Append(bestMatches, city), bestSimilarity)
             ELSE bestScan(cities, normalized, i + 1, bestMatches, bestSimilarity)

\* let bestMatches = []; let bestSimilarity = 0; for (const city of ...)
bestOf(cities, normalized) == bestScan(cities, normalized, 1, <<>>, Zero)

\* the first of the best matches, whatever the expected word
bestMatchFirst(bestMatches, word) ==
    IF bestMatches = <<>> THEN <<>> ELSE <<bestMatches[1]>>

\* bestMatches.includes(word) ? word : bestMatches[0]
bestMatchOf(bestMatches, word) ==
    IF arrIncludes(bestMatches, word) THEN <<word>>
    ELSE IF bestMatches = <<>> THEN <<>>
    ELSE <<bestMatches[1]>>

\* the best match compared without normalizing it
isBestMatchExpectedRaw(bestMatch, expected) == bestMatch = expected

\* const isCorrect = this.normalizeText(bestMatch) === expected
isBestMatchExpected(bestMatch, expected) == normalizeText(bestMatch) = expected

NoTrial ==
    [policy |-> "none", transcription |-> <<>>, normalized |-> <<>>,
     expected |-> <<>>, challenge |-> [letter |-> <<>>, word |-> <<>>],
     searched |-> <<>>, bestMatches |-> <<>>, bestSimilarity |-> Zero,
     bestMatch |-> <<>>, similarity |-> Zero, isCorrect |-> FALSE,
     thrown |-> FALSE, delay |-> 0]

\* checkAnswerWithCities; normalizeText(undefined) throws a TypeError, which
\* leaves the method before a verdict is shown or a timer is set
checkAnswerWithCities(transcription, challenge, cities) ==
    LET normalized == normalizeText(transcription)
        expected   == normalizeText(challenge.word)
        searched   == citiesToSearch(cities, challenge.letter)
        best       == bestOf(searched, normalized)
        bestMatch  == bestMatchOf(best.bestMatches, challenge.word)
        thrown     == bestMatch = <<>>
        isCorrect  == ~thrown /\ isBestMatchExpected(bestMatch[1], expected)
    IN  [policy |-> "cities", transcription |-> transcription,
         normalized |-> normalized, expected |-> expected,
         challenge |-> challenge, searched |-> searched,
         bestMatches |-> best.bestMatches,
         bestSimilarity |-> best.bestSimilarity, bestMatch |-> bestMatch,
         similarity |-> Zero, isCorrect |-> isCorrect, thrown |-> thrown,
         delay |-> IF thrown THEN 0 ELSE IF isCorrect THEN 2000 ELSE 3000]

\* the single-word check by containment, either way round
checkAnswerSubstring(transcription, challenge) ==
    LET normalized == normalizeText(transcription)
        expected   == normalizeText(challenge.word)
        isCorrect  == strIncludes(normalized, expected) \/ strIncludes(expected, normalized)
    IN  [policy |-> "single", transcription |-> transcription,
         normalized |-> normalized, expected |-> expected,
         challenge |-> challenge, searched |-> <<>>, bestMatches |-> <<>>,
         bestSimilarity |-> Zero, bestMatch |-> <<>>,
         similarity |-> Zero, isCorrect |-> isCorrect,
         thrown |-> FALSE, delay |-> IF isCorrect THEN 1500 ELSE 3000]

\* checkAnswerSingle
checkAnswerSingle(transcription, challenge) ==
    LET normalized == normalizeText(transcription)
        expected   == normalizeText(challenge.word)
        similarity == singleSimilarity(normalized, expected)
        isCorrect  == FGeq(similarity, threshold)
    IN  [policy |-> "single", transcription |-> transcription,
         normalized |-> normalized, expected |-> expected,
         challenge |-> challenge, searched |-> <<>>, bestMatches |-> <<>>,
         bestSimilarity |-> Zero, bestMatch |-> <<>>,
         similarity |-> similarity, isCorrect |-> isCorrect,
         thrown |-> FALSE, delay |-> IF isCorrect THEN 1500 ELSE 3000]

Umlaut == <<"U","m","l","a","u","t">>

\* this.currentChallenge = null
NoChallenge == [letter |-> <<>>, word |-> <<>>]

\* checkAnswer testing the transcription only, not the challenge
checkAnswerAnyChallenge(transcription, challenge, language, cities) ==
    IF transcription = <<>>
    THEN [NoTrial EXCEPT !.policy = "noanswer",
                         !.transcription = transcription,
                         !.challenge = challenge, !.delay = 2000]
    ELSE IF language = "de" /\ Len(cities) > 0
            /\ ~strIncludes(challenge.word, Umlaut)
    THEN checkAnswerWithCities(transcription, challenge, cities)
    ELSE checkAnswerSingle(transcription, challenge)

\* checkAnswer: the locals and the outcome of one call
checkAnswer(transcription, challenge, language, cities) ==
    IF transcription = <<>> \/ challenge = NoChallenge
    THEN [NoTrial EXCEPT !.policy = "noanswer",
                         !.transcription = transcription,
                         !.challenge = challenge, !.delay = 2000]
    ELSE IF language = "de" /\ Len(cities) > 0
            /\ ~strIncludes(challenge.word, Umlaut)
    THEN checkAnswerWithCities(transcription, challenge, cities)
    ELSE checkAnswerSingle(transcription, challenge)

\* elements.transcription after checkAnswer returned, or threw into the
\* catch block of stopRecording, which sets the text only
displayOf(t, shown) ==
    IF t.policy = "noanswer"
    THEN [text |-> "No answer detected", className |-> "error"]
    ELSE IF t.thrown THEN [shown EXCEPT !.text = "Error: TypeError"]
    ELSE IF t.isCorrect THEN [text |-> "Correct", className |-> "correct"]
    ELSE IF t.policy = "cities"
    THEN [text |-> "You said", className |-> "incorrect"]
    ELSE [text |-> "Wrong", className |-> "incorrect"]

\* the challenges nextChallenge can draw, over all languages
Challenges == UNION {alphabets[language] : language \in Languages}

\* checkAnswer on every argument the application can pass it, computed once
checkAnswerOf ==
    [transcription \in Transcripts, challenge \in Challenges,
     language \in Languages, cities \in CityLists |->
        checkAnswer(transcription, challenge, language, cities)] @@ <<>>

(***************************************************************************)
(* The application.                                                        *)
(***************************************************************************)
VARIABLES
    currentLanguage,   \* this.currentLanguage
    currentMode,       \* this.currentMode
    germanCities,      \* this.germanCities
    currentChallenge,  \* this.currentChallenge
    isRecording,       \* this.isRecording
    recordTimeoutId,   \* this.recordTimeoutId holds a pending timeout
    evaluating,        \* stopRecording calls suspended at their awaits: the
                       \* recordings whose transcript has not come back yet
    langPending,       \* setLanguage calls suspended at their awaits
    pendingAdvance,    \* pending setTimeout(() => this.nextChallenge(), ...)
    display,           \* elements.transcription: text and className
    trial,             \* locals and outcome of the checkAnswer call that has
                       \* just returned; NoTrial once another handler ran
    initStep,          \* init(): the step it is at, "done" or "aborted"
    failed,            \* init(): the steps that failed
    listening,         \* setupEventListeners has installed the handlers
    arg1,              \* function specifications: first argument
    arg2,              \* function specifications: second argument
    scored,            \* function specifications: what was computed
    audioProcessor,    \* this.audioProcessor: the fields of the AudioProcessor
    audioData,         \* what the last audioProcessor.stopRecording() returned
    events,            \* the start and stop signals and the chunks delivered,
                       \* in the order they happened
    whisperCall,       \* the locals and timers of a whisperSTT.transcribe call
    deployed,          \* the release whose service-worker.js the server holds
    registration,      \* the ServiceWorkerRegistration: installing, waiting
                       \* and active worker (0: null) and the workers whose
                       \* skip-waiting flag is set
    page,              \* the open page: navigator.serviceWorker.controller,
                       \* the update banner, events and messages under way,
                       \* the releases that were waiting at an 'Update Now'
    caches,            \* CacheStorage: the caches in the order of creation
    fetchEvent,        \* the fetch event handled last and its outcome
    timers,            \* the timeouts of startRecordingProgress that have
                       \* not fired, and the one this.recordTimeoutId names
    pendingCalls,      \* the setLanguage calls suspended at
                       \* await storage.saveLanguage, oldest first
    languageSettings   \* the language in storage, whisperSTT.language and
                       \* espeakTTS.language; whether the setLanguage call
                       \* that settled last was rejected

appVars == <<currentLanguage, currentMode, germanCities, currentChallenge,
             isRecording, recordTimeoutId, evaluating, langPending, pendingAdvance, display,
             trial>>

initVars == <<initStep, failed, listening>>

scoreVars == <<arg1, arg2, scored>>

deviceVars == <<audioProcessor, audioData, events, whisperCall>>

workerVars == <<deployed, registration, page, caches, fetchEvent>>

languageVars == <<pendingCalls, languageSettings>>

platformVars == <<workerVars, timers, languageVars>>

vars == <<appVars, initVars, scoreVars, deviceVars, platformVars>>

\* suspended calls and timers whose continuation has not run yet
inFlight == langPending + pendingAdvance + evaluating

NotScored == [kind |-> "none", distance |-> 0, similarity |-> Zero]

\* new AudioProcessor(): no stream, no audio context (ready), no script
\* processor, an empty chunk list, not recording
NoProcessor ==
    [ready |-> FALSE, sampleRate |-> 0, processor |-> FALSE,
     recording |-> FALSE, samples |-> <<>>]

\* no whisperSTT.transcribe call has been made
NoCall ==
    [state |-> "none", calling |-> FALSE, clock |-> 0, completed |-> FALSE,
     outputLineCount |-> 0, lastOutputTime |-> 0, transcriptionText |-> FALSE,
     timeout |-> FALSE, checkInterval |-> 0, finishTimers |-> {},
     callbacks |-> FALSE, error |-> "none"]

(***************************************************************************)
(* The service worker's caches, the auto-stop timers and the language      *)
(* settings, as they are when a page of release 1 is open.                 *)
(***************************************************************************)
Versions == 1..MaxVersions

\* Makefile, deploy: sed "s/voxalpha-[^'\"]*'/voxalpha-$(VERSION)'/" on
\* service-worker.js.  A name is the text up to 'voxalpha-' and the rest;
\* the pattern takes the whole rest, up to the closing quote
injectVersion(name, version) ==
    IF name[1] = "voxalpha-" THEN <<"voxalpha-", version>> ELSE name

\* const CACHE_NAME = 'voxalpha-v1', as deployed for a release
CACHE_NAME(version) == injectVersion(<<"voxalpha-", "v1">>, version)

\* const RUNTIME_CACHE = 'voxalpha-runtime-v1', as deployed for a release
RUNTIME_CACHE(version) ==
    injectVersion(<<"voxalpha-", "runtime-v1">>, version)

\* the CORE_ASSETS, of which the model keeps one
CORE_ASSETS == {"index.html"}

\* same-origin files: the core assets, the city list and a second document
Urls == CORE_ASSETS \cup {"german-cities.txt", "clear-cache.html"}

\* a cache that caches.open has just created
emptyCache(cacheName) == [name |-> cacheName, entries |-> [u \in Urls |-> 0]]

\* caches.open(cacheName): the cache is created when it does not exist
open(cacheList, cacheName) ==
    IF \E i \in 1..Len(cacheList) : cacheList[i].name = cacheName
    THEN cacheList
    ELSE Append(cacheList, emptyCache(cacheName))

\* cache.put and cache.addAll on caches.open(cacheName): an entry holds the
\* release of the worker that stored the response
putAll(cacheList, cacheName, urls, version) ==
    LET opened == open(cacheList, cacheName)
    IN  [i \in 1..Len(opened) |->
            IF opened[i].name = cacheName
            THEN [opened[i] EXCEPT !.entries =
                     [u \in Urls |-> IF u \in urls THEN version ELSE @[u]]]
            ELSE opened[i]]

\* caches.match(url): the entry of the first cache, in the order of
\* creation, that holds one; 0 for undefined
match(cacheList, url) ==
    LET hits == {i \in 1..Len(cacheList) : cacheList[i].entries[url] # 0}
    IN  IF hits = {} THEN 0
        ELSE cacheList[CHOOSE i \in hits : \A j \in hits : i <= j].entries[url]

\* the activate handler's filter that deletes nothing
isOldNever(cacheName, version) == FALSE

\* the activate handler's filter: the caches it deletes
isOld(cacheName, version) ==
    cacheName # CACHE_NAME(version) /\ cacheName # RUNTIME_CACHE(version)

\* the fetch handler's test with every response cached
cacheableAlways(response) == TRUE

\* the fetch handler's test before it caches a response:
\* !(!response || response.status !== 200 || response.type === 'error')
cacheable(response) == response.resolved /\ response.status = 200

\* the request and the network outcome of no fetch event
NoRequest == [url |-> "", sameOrigin |-> TRUE, method |-> "", destination |-> ""]

NoResponse == [resolved |-> FALSE, status |-> 0]

\* no fetch event has been handled
NoFetch ==
    [worker |-> 0, request |-> NoRequest, network |-> NoResponse,
     intercepted |-> FALSE,
     contacted |-> FALSE, returned |-> "none", cachedBy |-> 0,
     stored |-> FALSE]

\* no timeout of startRecordingProgress is pending, recordTimeoutId is null
NoTimers == [pending |-> {}, handle |-> 0]

\* clearRecordingTimeout that clears nothing
clearRecordingTimeoutNot(ts) == ts

\* clearRecordingTimeout(): clearTimeout(this.recordTimeoutId) and
\* this.recordTimeoutId = null, when it is not null
clearRecordingTimeout(ts) ==
    IF ts.handle # 0
    THEN [pending |-> ts.pending \ {ts.handle}, handle |-> 0]
    ELSE ts

\* startRecordingProgress(): clearRecordingTimeout(), then
\* this.recordTimeoutId = setTimeout(..., 10000); id names the new timeout
startRecordingProgress(ts, id) ==
    [pending |-> clearRecordingTimeout(ts).pending \cup {id}, handle |-> id]

\* release 1 installed, active and in control of the page that is open,
\* its core assets cached; no recording timeout; the stored language and
\* the languages of recognizer and speech output are the current one
PlatformAtRest ==
    /\ deployed = 1
    /\ registration = [installing |-> 0, waiting |-> 0, active |-> 1,
                       skipWaiting |-> {1}]
    /\ page = [controller |-> 1, watching |-> {}, banner |-> FALSE,
               consented |-> {}, queue |-> <<>>, posted |-> 0]
    /\ caches = putAll(<<>>, CACHE_NAME(1), CORE_ASSETS, 1)
    /\ fetchEvent = NoFetch
    /\ timers = NoTimers
    /\ pendingCalls = <<>>
    /\ languageSettings = [persisted |-> currentLanguage,
                           whisperSTT |-> currentLanguage,
                           espeakTTS |-> currentLanguage,
                           rejected |-> FALSE]

helpDisplay == [text |-> "help", className |-> "help"]

\* index.html: the transcription element before any handler wrote to it
blankDisplay == [text |-> "", className |-> "transcription"]

\* after a successful init(): language from storage, city list loaded (an
\* empty file gives the empty list), handlers installed and the first
\* challenge drawn by setupEventListeners
Init ==
    /\ currentLanguage \in Languages
    /\ currentMode = "input"
    /\ germanCities \in CityLists
    /\ currentChallenge \in alphabets[currentLanguage]
    /\ isRecording = FALSE
    /\ recordTimeoutId = FALSE
    /\ evaluating = 0
    /\ langPending = 0
    /\ pendingAdvance = 0
    /\ display = helpDisplay
    /\ trial = NoTrial
    /\ initStep = "done" /\ failed = {} /\ listening = TRUE
    /\ arg1 = <<>> /\ arg2 = <<>> /\ scored = NotScored
    /\ audioProcessor = NoProcessor /\ audioData = <<>> /\ events = <<>>
    /\ whisperCall = NoCall
    /\ PlatformAtRest

\* nextChallenge(): a random letter of the active alphabet
nextChallenge ==
    /\ currentChallenge' \in alphabets[currentLanguage]
    /\ display' = helpDisplay
    /\ trial' = NoTrial

\* setMode(mode)
setMode(mode) ==
    /\ listening
    /\ currentMode # mode
    /\ currentMode' = mode
    /\ IF mode = "output"
       THEN nextChallenge
       ELSE trial' = NoTrial /\ UNCHANGED <<currentChallenge, display>>
    /\ UNCHANGED <<currentLanguage, germanCities, isRecording, recordTimeoutId, evaluating,
                   langPending, pendingAdvance, initVars, scoreVars, deviceVars,
                   platformVars>>

\* setLanguage(lang) up to its first await
setLanguage(lang) ==
    /\ listening
    /\ currentLanguage # lang
    /\ inFlight < MaxPending
    /\ currentLanguage' = lang
    /\ langPending' = langPending + 1
    /\ trial' = NoTrial
    /\ UNCHANGED <<currentMode, germanCities, currentChallenge, isRecording, recordTimeoutId,
                   evaluating, pendingAdvance, display, initVars, scoreVars, deviceVars,
                   platformVars>>

\* setLanguage after its awaits: a new challenge in output mode
setLanguageResume ==
    /\ langPending > 0
    /\ langPending' = langPending - 1
    /\ IF currentMode = "output"
       THEN nextChallenge
       ELSE trial' = NoTrial /\ UNCHANGED <<currentChallenge, display>>
    /\ UNCHANGED <<currentLanguage, currentMode, germanCities, isRecording, recordTimeoutId,
                   evaluating, pendingAdvance, initVars, scoreVars, deviceVars,
                   platformVars>>

\* startRecording(): the record button (shown in output mode) pressed; a
\* call while this.isRecording returns at once
startRecording ==
    /\ listening
    /\ currentMode = "output"
    /\ ~isRecording
    /\ isRecording' = TRUE
    /\ recordTimeoutId' = TRUE
    /\ display' = [text |-> "Recording", className |-> "recording"]
    /\ trial' = NoTrial
    /\ UNCHANGED <<currentLanguage, currentMode, germanCities, currentChallenge,
                   evaluating, langPending, pendingAdvance, initVars,
                   scoreVars, deviceVars, platformVars>>

\* stopRecording that leaves the recording timeout pending
stopRecordingKeepingTimeout(dueToTimeout) ==
    /\ isRecording
    /\ inFlight < MaxPending
    /\ isRecording' = FALSE
    /\ evaluating' = evaluating + 1
    /\ display' = [text |-> "Processing", className |-> "processing"]
    /\ trial' = NoTrial
    /\ UNCHANGED <<currentLanguage, currentMode, germanCities, currentChallenge,
                   recordTimeoutId, langPending, pendingAdvance, initVars,
                   scoreVars, deviceVars, platformVars>>

\* stopRecording(dueToTimeout) up to its first await: the button released,
\* or called by the recording timeout; dueToTimeout only adds a log line
stopRecording(dueToTimeout) ==
    /\ isRecording
    /\ inFlight < MaxPending
    /\ isRecording' = FALSE
    /\ recordTimeoutId' = FALSE
    /\ evaluating' = evaluating + 1
    /\ display' = [text |-> "Processing", className |-> "processing"]
    /\ trial' = NoTrial
    /\ UNCHANGED <<currentLanguage, currentMode, germanCities, currentChallenge,
                   langPending, pendingAdvance, initVars, scoreVars, deviceVars,
                   platformVars>>

\* the callback set by startRecordingProgress, when its 10 s have passed
recordTimeout ==
    /\ recordTimeoutId
    /\ IF isRecording THEN stopRecording(TRUE)
       ELSE /\ recordTimeoutId' = FALSE
            /\ UNCHANGED <<currentLanguage, currentMode, germanCities,
                           currentChallenge, isRecording, evaluating,
                           langPending, pendingAdvance, display, trial,
                           initVars, scoreVars, deviceVars, platformVars>>

\* stopRecording when the audio processor returned no samples: the early
\* return of the try block
noAudio ==
    /\ evaluating > 0
    /\ evaluating' = evaluating - 1
    /\ display' = [display EXCEPT !.text = "(no audio recorded)"]
    /\ trial' = NoTrial
    /\ UNCHANGED <<currentLanguage, currentMode, germanCities, currentChallenge,
                   isRecording, recordTimeoutId, langPending, pendingAdvance, initVars,
                   scoreVars, deviceVars, platformVars>>

\* a recognizer failure shown as a rejection that advances
transcribeFailedRejected ==
    /\ evaluating > 0
    /\ evaluating' = evaluating - 1
    /\ pendingAdvance' = pendingAdvance + 1
    /\ display' = [text |-> "Error: recognizer", className |-> "error"]
    /\ trial' = NoTrial
    /\ UNCHANGED <<currentLanguage, currentMode, germanCities, currentChallenge,
                   isRecording, recordTimeoutId, langPending, initVars, scoreVars, deviceVars,
                   platformVars>>

\* stopRecording when whisperSTT.transcribe rejected (silent audio, a
\* non-zero return code, the 30 s timeout): the catch block
transcribeFailed ==
    /\ evaluating > 0
    /\ evaluating' = evaluating - 1
    /\ display' = [display EXCEPT !.text = "Error: recognizer"]
    /\ trial' = NoTrial
    /\ UNCHANGED <<currentLanguage, currentMode, germanCities, currentChallenge,
                   isRecording, recordTimeoutId, langPending, pendingAdvance, initVars,
                   scoreVars, deviceVars, platformVars>>

\* stopRecording once the recognizer returned transcription:
\* checkAnswer(transcription) inside the try block
evaluate(transcription) ==
    /\ evaluating > 0
    /\ evaluating' = evaluating - 1
    /\ trial' = checkAnswerOf[transcription, currentChallenge,
                              currentLanguage, germanCities]
    /\ display' = displayOf(trial', display)
    /\ pendingAdvance' = IF trial'.thrown THEN pendingAdvance
                         ELSE pendingAdvance + 1
    /\ UNCHANGED <<currentLanguage, currentMode, germanCities, currentChallenge,
                   isRecording, recordTimeoutId, langPending, initVars, scoreVars, deviceVars,
                   platformVars>>

\* an advancement timer fires
advance ==
    /\ pendingAdvance > 0
    /\ pendingAdvance' = pendingAdvance - 1
    /\ nextChallenge
    /\ UNCHANGED <<currentLanguage, currentMode, germanCities, isRecording, recordTimeoutId,
                   evaluating, langPending, initVars, scoreVars, deviceVars,
                   platformVars>>

Next ==
    \/ \E mode \in Modes : setMode(mode)
    \/ \E lang \in Languages : setLanguage(lang)
    \/ setLanguageResume
    \/ startRecording
    \/ stopRecording(FALSE)
    \/ recordTimeout
    \/ noAudio
    \/ transcribeFailed
    \/ \E transcription \in Transcripts : evaluate(transcription)
    \/ advance

Spec == Init /\ [][Next]_vars

(***************************************************************************)
(* init() on its own, from the constructed object: one action per awaited  *)
(* step, each with the outcomes the step can have.                         *)
(***************************************************************************)
\* new VoxAlpha(): the constructor's fields; init() is about to run
InitStart ==
    /\ currentLanguage = "en"
    /\ currentMode = "input"
    /\ germanCities = <<>>
    /\ currentChallenge = NoChallenge
    /\ isRecording = FALSE
    /\ recordTimeoutId = FALSE
    /\ evaluating = 0
    /\ langPending = 0
    /\ pendingAdvance = 0
    /\ display = blankDisplay
    /\ trial = NoTrial
    /\ initStep = "storage" /\ failed = {} /\ listening = FALSE
    /\ arg1 = <<>> /\ arg2 = <<>> /\ scored = NotScored
    /\ audioProcessor = NoProcessor /\ audioData = <<>> /\ events = <<>>
    /\ whisperCall = NoCall
    /\ PlatformAtRest

\* an awaited step that threw into the catch block of init()
abort(step) ==
    /\ initStep' = "aborted"
    /\ failed' = failed \cup {step}

\* await storage.init()
initStorage(ok) ==
    /\ initStep = "storage"
    /\ IF ok THEN initStep' = "language" /\ UNCHANGED failed
       ELSE abort("storage")
    /\ UNCHANGED <<appVars, listening, scoreVars, deviceVars, platformVars>>

\* this.currentLanguage = await storage.getLanguage()
getLanguage(lang) ==
    /\ initStep = "language"
    /\ currentLanguage' = lang
    /\ initStep' = "alphabets"
    /\ UNCHANGED <<currentMode, germanCities, currentChallenge, isRecording, recordTimeoutId,
                   evaluating, langPending, pendingAdvance, display, trial,
                   failed, listening, scoreVars, deviceVars, platformVars>>

\* await this.loadAlphabets(): a failed fetch is thrown on
loadAlphabets(ok) ==
    /\ initStep = "alphabets"
    /\ IF ok THEN initStep' = "cities" /\ UNCHANGED failed
       ELSE abort("alphabets")
    /\ UNCHANGED <<appVars, listening, scoreVars, deviceVars, platformVars>>

\* await this.loadGermanCities(): a failed fetch leaves the empty list
loadGermanCities(ok, cities) ==
    /\ initStep = "cities"
    /\ initStep' = "stt"
    /\ IF ok THEN germanCities' = cities /\ UNCHANGED failed
       ELSE germanCities' = <<>> /\ failed' = failed \cup {"cities"}
    /\ UNCHANGED <<currentLanguage, currentMode, currentChallenge, isRecording, recordTimeoutId,
                   evaluating, langPending, pendingAdvance, display, trial,
                   listening, scoreVars, deviceVars, platformVars>>

\* await this.initSTT(): its catch block throws the error on
initSTT(ok) ==
    /\ initStep = "stt"
    /\ IF ok THEN initStep' = "tts" /\ UNCHANGED failed
       ELSE abort("stt")
    /\ UNCHANGED <<appVars, listening, scoreVars, deviceVars, platformVars>>

\* await this.initTTS(): its catch block keeps the error
initTTS(ok) ==
    /\ initStep = "tts"
    /\ initStep' = "microphone"
    /\ failed' = IF ok THEN failed ELSE failed \cup {"tts"}
    /\ UNCHANGED <<appVars, listening, scoreVars, deviceVars, platformVars>>

\* await this.initMicrophone(): its catch block keeps the error and shows it
initMicrophone(ok) ==
    /\ initStep = "microphone"
    /\ initStep' = "listeners"
    /\ IF ok THEN UNCHANGED <<failed, display>>
       ELSE /\ failed' = failed \cup {"microphone"}
            /\ display' = [display EXCEPT !.text = "Microphone error"]
    /\ UNCHANGED <<currentLanguage, currentMode, germanCities, currentChallenge,
                   isRecording, recordTimeoutId, evaluating, langPending, pendingAdvance, trial,
                   listening, scoreVars, deviceVars, platformVars>>

\* this.setupEventListeners() and the rest of the try block
setupEventListeners ==
    /\ initStep = "listeners"
    /\ initStep' = "done"
    /\ listening' = TRUE
    /\ nextChallenge
    /\ UNCHANGED <<currentLanguage, currentMode, germanCities, isRecording, recordTimeoutId,
                   evaluating, langPending, pendingAdvance, failed, scoreVars, deviceVars,
                   platformVars>>

NextInit ==
    \/ \E ok \in BOOLEAN : initStorage(ok)
    \/ \E lang \in Languages : getLanguage(lang)
    \/ \E ok \in BOOLEAN : loadAlphabets(ok)
    \/ \E ok \in BOOLEAN, cities \in CityLists : loadGermanCities(ok, cities)
    \/ \E ok \in BOOLEAN : initSTT(ok)
    \/ \E ok \in BOOLEAN : initTTS(ok)
    \/ \E ok \in BOOLEAN : initMicrophone(ok)
    \/ setupEventListeners

SpecInit == InitStart /\ [][NextInit]_vars

(***************************************************************************)
(* The scorer on its own: levenshteinDistance and the two similarity       *)
(* computations applied to a pair of normalized strings.                   *)
(***************************************************************************)
ScoreChars == {"a", "b"}

koln == <<"k","o","l","n">>

kronach == <<"k","r","o","n","a","c","h">>

\* the pairs scored: every string over ScoreChars up to MaxScoreLen (the
\* empty one included) and two sample words
ScoreStrings == SeqsUpTo(ScoreChars, MaxScoreLen) \cup {koln, kronach}

InitScore ==
    /\ currentLanguage = "de"
    /\ currentMode = "input"
    /\ germanCities = <<>>
    /\ currentChallenge \in {c \in alphabets["de"] : c.word = Bonn}
    /\ isRecording = FALSE
    /\ recordTimeoutId = FALSE
    /\ evaluating = 0
    /\ langPending = 0
    /\ pendingAdvance = 0
    /\ display = helpDisplay
    /\ trial = NoTrial
    /\ initStep = "done" /\ failed = {} /\ listening = TRUE
    /\ arg1 \in ScoreStrings
    /\ arg2 \in ScoreStrings
    /\ scored = NotScored
    /\ audioProcessor = NoProcessor /\ audioData = <<>> /\ events = <<>>
    /\ whisperCall = NoCall
    /\ PlatformAtRest

\* the body of the scoring loop of checkAnswerWithCities on (arg1, arg2)
scoreCity ==
    /\ scored.kind = "none"
    /\ scored' = [kind |-> "city",
                  distance |-> levenshteinDistance(arg1, arg2),
                  similarity |-> citySimilarity(arg1, arg2)]
    /\ UNCHANGED <<appVars, initVars, arg1, arg2, deviceVars, platformVars>>

\* the first lines of checkAnswerSingle on (arg1, arg2)
scoreSingle ==
    /\ scored.kind = "none"
    /\ scored' = [kind |-> "single",
                  distance |-> levenshteinDistance(arg1, arg2),
                  similarity |-> singleSimilarity(arg1, arg2)]
    /\ UNCHANGED <<appVars, initVars, arg1, arg2, deviceVars, platformVars>>

NextScore == scoreCity \/ scoreSingle

SpecScore == InitScore /\ [][NextScore]_vars

(***************************************************************************)
(* normalizeText on its own, applied to a raw text and to its own result.  *)
(***************************************************************************)
\* characters of the raw texts: an uppercase and a lowercase letter, an
\* uppercase and a lowercase umlaut, the sharp s, a blank, a punctuation
\* mark and a digit
RawChars == {"A", "b", "AE", "oe", "sz", " ", "!", "1"}

\* the word of the unit test 'should preserve German characters'
Groesse == <<"G", "R", "OE", "sz", "E">>

RawStrings == SeqsUpTo(RawChars, MaxRawLen) \cup {Groesse}

NotNormalized == [kind |-> "none", once |-> <<>>, twice |-> <<>>]

InitText ==
    /\ currentLanguage = "en"
    /\ currentMode = "input"
    /\ germanCities = <<>>
    /\ currentChallenge = NoChallenge
    /\ isRecording = FALSE
    /\ recordTimeoutId = FALSE
    /\ evaluating = 0
    /\ langPending = 0
    /\ pendingAdvance = 0
    /\ display = blankDisplay
    /\ trial = NoTrial
    /\ initStep = "storage" /\ failed = {} /\ listening = FALSE
    /\ arg1 \in RawStrings
    /\ arg2 = <<>>
    /\ scored = NotNormalized
    /\ audioProcessor = NoProcessor /\ audioData = <<>> /\ events = <<>>
    /\ whisperCall = NoCall
    /\ PlatformAtRest

\* this.normalizeText(text) on arg1, and on what it returned
normalize ==
    /\ scored.kind = "none"
    /\ scored' = [kind |-> "normalized",
                  once |-> normalizeText(arg1),
                  twice |-> normalizeText(normalizeText(arg1))]
    /\ UNCHANGED <<appVars, initVars, arg1, arg2, deviceVars, platformVars>>

NextText == normalize

SpecText == InitText /\ [][NextText]_vars

(***************************************************************************)
(* checkAnswer on its own: one call on an object whose fields hold any     *)
(* language, city list and challenge, the absent challenge included.       *)
(***************************************************************************)
\* the transcripts given to checkAnswer on its own: those of the
\* application and the utterances 'I said Alpha' and 'Alph'
ISaidAlpha == <<"I"," ","s","a","i","d"," ","A","l","p","h","a">>

Alph == <<"A","l","p","h">>

SpokenTranscripts == Transcripts \cup {ISaidAlpha, Alph}

InitCheck ==
    /\ currentLanguage \in Languages
    /\ currentMode = "output"
    /\ germanCities \in CityLists
    /\ currentChallenge \in Challenges \cup {NoChallenge}
    /\ isRecording = FALSE
    /\ recordTimeoutId = FALSE
    /\ evaluating = 0
    /\ langPending = 0
    /\ pendingAdvance = 0
    /\ display = IF currentChallenge = NoChallenge THEN blankDisplay
                 ELSE helpDisplay
    /\ trial = NoTrial
    /\ initStep = "done" /\ failed = {} /\ listening = TRUE
    /\ arg1 \in SpokenTranscripts
    /\ arg2 = <<>>
    /\ scored = NotScored
    /\ audioProcessor = NoProcessor /\ audioData = <<>> /\ events = <<>>
    /\ whisperCall = NoCall
    /\ PlatformAtRest

\* this.checkAnswer(transcription) on arg1
check ==
    /\ trial = NoTrial
    /\ trial' = checkAnswer(arg1, currentChallenge, currentLanguage,
                            germanCities)
    /\ display' = displayOf(trial', display)
    /\ pendingAdvance' = IF trial'.thrown THEN pendingAdvance
                         ELSE pendingAdvance + 1
    /\ UNCHANGED <<currentLanguage, currentMode, germanCities, currentChallenge,
                   isRecording, recordTimeoutId, evaluating, langPending, initVars, scoreVars, deviceVars,
                   platformVars>>

NextCheck == check

SpecCheck == InitCheck /\ [][NextCheck]_vars

(***************************************************************************)
(* checkAnswer on a city list and on a reordering of it.                   *)
(***************************************************************************)
\* the orders in which the lines of a city list can stand in the file
Reorderings(cities) ==
    {[i \in 1..Len(cities) |-> cities[f[i]]] :
        f \in {g \in [1..Len(cities) -> 1..Len(cities)] :
                  \A i, j \in 1..Len(cities) : g[i] = g[j] => i = j}}

InitOrder ==
    /\ currentLanguage = "de"
    /\ currentMode = "output"
    /\ germanCities \in CityLists
    /\ currentChallenge \in alphabets["de"]
    /\ isRecording = FALSE
    /\ recordTimeoutId = FALSE
    /\ evaluating = 0
    /\ langPending = 0
    /\ pendingAdvance = 0
    /\ display = helpDisplay
    /\ trial = NoTrial
    /\ initStep = "done" /\ failed = {} /\ listening = TRUE
    /\ arg1 \in Transcripts
    /\ arg2 \in Reorderings(germanCities)
    /\ scored = NotScored
    /\ audioProcessor = NoProcessor /\ audioData = <<>> /\ events = <<>>
    /\ whisperCall = NoCall
    /\ PlatformAtRest

\* this.checkAnswer(arg1) with this.germanCities as loaded, and the outcome
\* of the same call had the file listed the cities in the order arg2
checkReordered ==
    /\ trial = NoTrial
    /\ trial' = checkAnswer(arg1, currentChallenge, currentLanguage,
                            germanCities)
    /\ display' = displayOf(trial', display)
    /\ pendingAdvance' = IF trial'.thrown THEN pendingAdvance
                         ELSE pendingAdvance + 1
    /\ scored' = [kind |-> "reordered",
                  other |-> checkAnswer(arg1, currentChallenge,
                                        currentLanguage, arg2)]
    /\ UNCHANGED <<currentLanguage, currentMode, germanCities, currentChallenge,
                   isRecording, recordTimeoutId, evaluating, langPending,
                   initVars, arg1, arg2, deviceVars, platformVars>>

NextOrder == checkReordered

SpecOrder == InitOrder /\ [][NextOrder]_vars

(***************************************************************************)
(* The capture pipeline: the recording handlers together with the          *)
(* AudioProcessor they drive, and the chunks the script processor          *)
(* delivers.  The recognizer is the pending transcribe call counted by     *)
(* evaluating.                                                             *)
(***************************************************************************)
\* the sample k / 1024 of a Float32Array
SampleOf(k) == Num(k < 0, NatOf(Abs(k)), -10)

\* audioContext.sampleRate: the rate of the output device
SampleRates == {16000, 44100, 48000}

\* channel data the microphone may deliver, with 2 samples to a chunk for
\* the 4096 of createScriptProcessor(4096, 1, 1): silence, a quiet chunk
\* (peak 5/1024 < 0.01) and a chunk that is loud (peak 0.5)
Chunks ==
    {<<SampleOf(0), SampleOf(0)>>,
     <<SampleOf(3), SampleOf(-5)>>,
     <<SampleOf(512), SampleOf(3)>>}

StartSignal == [kind |-> "start", chunk |-> <<>>]

StopSignal == [kind |-> "stop", chunk |-> <<>>]

Delivery(chunk) == [kind |-> "chunk", chunk |-> chunk]

\* after init() in output mode: initMicrophone either acquired the stream
\* and the audio context or left the new AudioProcessor without them
InitAudio ==
    /\ currentLanguage = "en"
    /\ currentMode = "output"
    /\ germanCities = <<>>
    /\ currentChallenge \in {c \in alphabets["en"] : c.word = Alpha}
    /\ isRecording = FALSE
    /\ recordTimeoutId = FALSE
    /\ evaluating = 0
    /\ langPending = 0
    /\ pendingAdvance = 0
    /\ display = helpDisplay
    /\ trial = NoTrial
    /\ initStep = "done" /\ listening = TRUE
    /\ \/ /\ failed = {"microphone"}
          /\ audioProcessor = NoProcessor
       \/ /\ failed = {}
          /\ \E rate \in SampleRates :
                 audioProcessor = [NoProcessor EXCEPT !.ready = TRUE,
                                                      !.sampleRate = rate]
    /\ audioData = <<>>
    /\ events = <<>>
    /\ whisperCall = NoCall
    /\ PlatformAtRest
    /\ arg1 = <<>> /\ arg2 = <<>> /\ scored = NotScored

\* startRecording whose catch block leaves isRecording and the timeout alone
startRecordingCaptureUncaught ==
    /\ listening
    /\ currentMode = "output"
    /\ ~isRecording
    /\ Len(events) < MaxEvents
    /\ events' = Append(events, StartSignal)
    /\ IF audioProcessor.ready
       THEN /\ audioProcessor' = audioStartRecording(audioProcessor)
            /\ timers' = startRecordingProgress(timers, Len(events'))
            /\ display' = [text |-> "Recording", className |-> "recording"]
       ELSE /\ display' = [text |-> "Error: AudioProcessor not initialized",
                           className |-> "recording"]
            /\ UNCHANGED <<audioProcessor, timers>>
    /\ isRecording' = TRUE
    /\ recordTimeoutId' = TRUE
    /\ trial' = NoTrial
    /\ UNCHANGED <<currentLanguage, currentMode, germanCities, currentChallenge,
                   evaluating, langPending, pendingAdvance, initVars,
                   scoreVars, audioData, whisperCall,
                   workerVars, languageVars>>

\* VoxAlpha.startRecording with the AudioProcessor: audioProcessor
\* .startRecording() throws without stream or context, and the catch block
\* shows the error, resets isRecording and clears the timeout
startRecordingCapture ==
    /\ listening
    /\ currentMode = "output"
    /\ ~isRecording
    /\ Len(events) < MaxEvents
    /\ events' = Append(events, StartSignal)
    /\ IF audioProcessor.ready
       THEN /\ audioProcessor' = audioStartRecording(audioProcessor)
            /\ isRecording' = TRUE
            /\ recordTimeoutId' = TRUE
            /\ timers' = startRecordingProgress(timers, Len(events'))
            /\ display' = [text |-> "Recording", className |-> "recording"]
       ELSE /\ display' = [text |-> "Error: AudioProcessor not initialized",
                           className |-> "recording"]
            /\ isRecording' = FALSE
            /\ recordTimeoutId' = FALSE
            /\ timers' = clearRecordingTimeout(timers)
            /\ UNCHANGED audioProcessor
    /\ trial' = NoTrial
    /\ UNCHANGED <<currentLanguage, currentMode, germanCities, currentChallenge,
                   evaluating, langPending, pendingAdvance, initVars,
                   scoreVars, audioData, whisperCall,
                   workerVars, languageVars>>

\* an audioprocess event of a script processor created by some
\* startRecording; one that was queued may still arrive after the stop
onaudioprocess(chunk) ==
    /\ \E i \in 1..Len(events) : events[i] = StartSignal
    /\ audioProcessor.ready
    /\ Len(events) < MaxEvents
    /\ events' = Append(events, Delivery(chunk))
    /\ audioProcessor' = audioProcess(audioProcessor, chunk)
    /\ UNCHANGED <<appVars, initVars, scoreVars, audioData, whisperCall,
                   platformVars>>

\* stopRecording without the return for an empty buffer
stopRecordingCaptureUnchecked ==
    /\ isRecording
    /\ Len(events) < MaxEvents
    /\ events' = Append(events, StopSignal)
    /\ isRecording' = FALSE
    /\ recordTimeoutId' = FALSE
    /\ timers' = clearRecordingTimeout(timers)
    /\ audioProcessor' = audioStopRecording(audioProcessor).ap
    /\ audioData' = audioStopRecording(audioProcessor).returned
    /\ display' = [text |-> "Processing", className |-> "processing"]
    /\ evaluating' = evaluating + 1
    /\ trial' = NoTrial
    /\ UNCHANGED <<currentLanguage, currentMode, germanCities, currentChallenge,
                   langPending, pendingAdvance, initVars, scoreVars,
                   whisperCall, workerVars, languageVars>>

\* VoxAlpha.stopRecording with the AudioProcessor, up to the await of
\* whisperSTT.transcribe or to the return for an empty buffer; ts is the
\* table of timeouts it finds
stopRecordingWith(ts) ==
    /\ isRecording
    /\ Len(events) < MaxEvents
    /\ events' = Append(events, StopSignal)
    /\ isRecording' = FALSE
    /\ recordTimeoutId' = FALSE
    /\ timers' = clearRecordingTimeout(ts)
    /\ audioProcessor' = audioStopRecording(audioProcessor).ap
    /\ audioData' = audioStopRecording(audioProcessor).returned
    /\ IF Len(audioData') = 0
       THEN /\ display' = [text |-> "(no audio recorded)",
                           className |-> "processing"]
            /\ UNCHANGED evaluating
       ELSE /\ display' = [text |-> "Processing", className |-> "processing"]
            /\ evaluating' = evaluating + 1
    /\ trial' = NoTrial
    /\ UNCHANGED <<currentLanguage, currentMode, germanCities, currentChallenge,
                   langPending, pendingAdvance, initVars, scoreVars,
                   whisperCall, workerVars, languageVars>>

\* the record button released
stopRecordingCapture == stopRecordingWith(timers)

\* the callback of a timeout set by startRecordingProgress, 10 s after it:
\* if (this.isRecording) this.stopRecording(true)
recordTimeoutCapture ==
    \E id \in timers.pending :
        LET fired == [timers EXCEPT !.pending = @ \ {id}]
        IN  IF isRecording
            THEN stopRecordingWith(fired)
            ELSE /\ timers' = fired
                 /\ recordTimeoutId' = (fired.handle \in fired.pending)
                 /\ UNCHANGED <<currentLanguage, currentMode, germanCities,
                                currentChallenge, isRecording, evaluating,
                                langPending, pendingAdvance, display, trial,
                                initVars, scoreVars, deviceVars, workerVars,
                                languageVars>>

NextAudio ==
    \/ startRecordingCapture
    \/ \E chunk \in Chunks : onaudioprocess(chunk)
    \/ stopRecordingCapture

SpecAudio == InitAudio /\ [][NextAudio]_vars

(***************************************************************************)
(* The service worker: releases deployed, installed and activated while a  *)
(* page is open, the update banner of the page, and the fetch handler.     *)
(***************************************************************************)
\* the requests of the page: a GET of each same-origin file, a navigation
\* being a request with destination 'document'; a GET to another origin
\* and a POST
Requests ==
    {[url |-> u, sameOrigin |-> TRUE, method |-> "GET",
      destination |-> IF u \in {"index.html", "clear-cache.html"}
                      THEN "document" ELSE ""] : u \in Urls}
    \cup {[url |-> "german-cities.txt", sameOrigin |-> FALSE,
           method |-> "GET", destination |-> ""],
          [url |-> "german-cities.txt", sameOrigin |-> TRUE,
           method |-> "POST", destination |-> ""]}

\* what fetch(request) comes to: a response with a status, or a rejection
Responses ==
    {[resolved |-> TRUE, status |-> 200], [resolved |-> TRUE, status |-> 404],
     [resolved |-> FALSE, status |-> 0]}

\* a page of release 1 is open and initialized, in input mode
InitWorker ==
    /\ currentLanguage = "en"
    /\ currentMode = "input"
    /\ germanCities = <<>>
    /\ currentChallenge \in {c \in alphabets["en"] : c.word = Alpha}
    /\ isRecording = FALSE
    /\ recordTimeoutId = FALSE
    /\ evaluating = 0
    /\ langPending = 0
    /\ pendingAdvance = 0
    /\ display = helpDisplay
    /\ trial = NoTrial
    /\ initStep = "done" /\ failed = {} /\ listening = TRUE
    /\ arg1 = <<>> /\ arg2 = <<>> /\ scored = NotScored
    /\ audioProcessor = NoProcessor /\ audioData = <<>> /\ events = <<>>
    /\ whisperCall = NoCall
    /\ PlatformAtRest

\* make deploy: the next release is on the server
deploy ==
    /\ deployed < MaxVersions
    /\ deployed' = deployed + 1
    /\ UNCHANGED <<appVars, initVars, scoreVars, deviceVars, registration,
                   page, caches, fetchEvent, timers, languageVars>>

\* registration.update(), or the browser's own check, found a changed
\* service-worker.js: updatefound, and the page listens to the new
\* worker's statechange
updatefound ==
    /\ registration.installing = 0
    /\ deployed > registration.active
    /\ deployed > registration.waiting
    /\ registration' = [registration EXCEPT !.installing = deployed]
    /\ page' = [page EXCEPT !.watching = @ \cup {deployed}]
    /\ UNCHANGED <<appVars, initVars, scoreVars, deviceVars, deployed, caches,
                   fetchEvent, timers, languageVars>>

\* the install handler: with the core assets cached it calls
\* self.skipWaiting(); a failure of addAll is logged and the install
\* succeeds all the same.  The worker becomes the waiting one
install(ok) ==
    /\ registration.installing # 0
    /\ LET version == registration.installing
       IN  /\ caches' = IF ok
                        THEN putAll(caches, CACHE_NAME(version), CORE_ASSETS,
                                    version)
                        ELSE open(caches, CACHE_NAME(version))
           /\ registration' =
                  [registration EXCEPT
                      !.installing = 0,
                      !.waiting = version,
                      !.skipWaiting = IF ok THEN @ \cup {version} ELSE @]
           /\ page' = IF version \in page.watching
                      THEN [page EXCEPT !.queue = Append(@, "installed")]
                      ELSE page
    /\ UNCHANGED <<appVars, initVars, scoreVars, deviceVars, deployed,
                   fetchEvent, timers, languageVars>>

\* the waiting worker activates: the page is controlled, so only when its
\* skip-waiting flag is set.  The activate handler deletes the caches its
\* filter selects and calls self.clients.claim()
activate ==
    /\ registration.waiting # 0
    /\ registration.waiting \in registration.skipWaiting
    /\ LET version == registration.waiting
       IN  /\ caches' = SelectSeq(caches,
                                  LAMBDA c : ~isOld(c.name, version))
           /\ registration' = [registration EXCEPT !.waiting = 0,
                                                   !.active = version]
           /\ page' = [page EXCEPT !.controller = version,
                                   !.queue = Append(@, "controllerchange")]
    /\ UNCHANGED <<appVars, initVars, scoreVars, deviceVars, deployed,
                   fetchEvent, timers, languageVars>>

\* the page's listeners.  statechange: the banner is shown if the worker is
\* installed and the page has a controller.  controllerchange:
\* window.location.reload(), after which registerServiceWorker runs again
\* and shows the banner if registration.waiting
pageEvent ==
    /\ page.queue # <<>>
    /\ page' = IF Head(page.queue) = "installed"
               THEN [page EXCEPT !.queue = Tail(@),
                                 !.banner = @ \/ page.controller # 0]
               ELSE [controller |-> registration.active, watching |-> {},
                     banner |-> registration.waiting # 0,
                     consented |-> page.consented, queue |-> <<>>,
                     posted |-> page.posted]
    /\ UNCHANGED <<appVars, initVars, scoreVars, deviceVars, deployed,
                   registration, caches, fetchEvent, timers, languageVars>>

\* 'Update Now': SKIP_WAITING is posted to registration.waiting if there is
\* one, and the banner is hidden
updateNow ==
    /\ page.banner
    /\ page' = [page EXCEPT !.banner = FALSE,
                            !.consented = @ \cup ({registration.waiting} \ {0}),
                            !.posted = IF registration.waiting # 0
                                       THEN registration.waiting ELSE @]
    /\ UNCHANGED <<appVars, initVars, scoreVars, deviceVars, deployed,
                   registration, caches, fetchEvent, timers, languageVars>>

\* the close button of the banner
dismiss ==
    /\ page.banner
    /\ page' = [page EXCEPT !.banner = FALSE]
    /\ UNCHANGED <<appVars, initVars, scoreVars, deviceVars, deployed,
                   registration, caches, fetchEvent, timers, languageVars>>

\* the message handler of the worker the page posted to: SKIP_WAITING
message ==
    /\ page.posted # 0
    /\ registration' = [registration EXCEPT !.skipWaiting = @ \cup {page.posted}]
    /\ page' = [page EXCEPT !.posted = 0]
    /\ UNCHANGED <<appVars, initVars, scoreVars, deviceVars, deployed, caches,
                   fetchEvent, timers, languageVars>>

\* the fetch handler of the controlling worker for request, the network
\* answering with network if the handler asks it; the event keeps the
\* answer of the network only then
fetch(request, network) ==
    /\ page.controller # 0
    /\ LET version == page.controller
           hit == match(caches, request.url)
           event == [NoFetch EXCEPT !.worker = version, !.request = request]
       IN  IF ~request.sameOrigin \/ request.method # "GET"
           THEN /\ fetchEvent' = event
                /\ UNCHANGED caches
           ELSE IF hit # 0
           THEN /\ fetchEvent' = [event EXCEPT !.intercepted = TRUE,
                                               !.returned = "cached",
                                               !.cachedBy = hit]
                /\ UNCHANGED caches
           ELSE IF network.resolved
           THEN /\ fetchEvent' = [event EXCEPT !.intercepted = TRUE,
                                               !.contacted = TRUE,
                                               !.network = network,
                                               !.returned = "network",
                                               !.stored = cacheable(network)]
                /\ caches' = IF cacheable(network)
                             THEN putAll(caches, RUNTIME_CACHE(version),
                                         {request.url}, version)
                             ELSE caches
           ELSE /\ fetchEvent' =
                      [event EXCEPT
                          !.intercepted = TRUE,
                          !.contacted = TRUE,
                          !.network = network,
                          !.returned =
                              IF request.destination # "document" THEN "503"
                              ELSE IF match(caches, "index.html") # 0
                              THEN "index.html" ELSE "undefined",
                          !.cachedBy =
                              IF request.destination = "document"
                              THEN match(caches, "index.html") ELSE 0]
                /\ UNCHANGED caches
    /\ UNCHANGED <<appVars, initVars, scoreVars, deviceVars, deployed,
                   registration, page, timers, languageVars>>

NextWorker ==
    \/ deploy
    \/ updatefound
    \/ \E ok \in BOOLEAN : install(ok)
    \/ activate
    \/ pageEvent
    \/ updateNow
    \/ dismiss
    \/ message
    \/ \E request \in Requests, network \in Responses : fetch(request, network)

SpecWorker == InitWorker /\ [][NextWorker]_vars

(***************************************************************************)
(* setLanguage with what it writes: the language setting in IndexedDB,     *)
(* whisperSTT.language and espeakTTS.language.                             *)
(***************************************************************************)
\* the suspended calls one of which settles next, were the order free
settlesNextAny(calls) == 1..Len(calls)

\* the suspended call that settles next: storage.set puts in a readwrite
\* transaction on the settings store, and such transactions run in the
\* order they were created
settlesNext(calls) == IF calls = <<>> THEN {} ELSE {1}

\* setLanguage(lang) up to await storage.saveLanguage(lang)
setLanguageCall(lang) ==
    /\ listening
    /\ currentLanguage # lang
    /\ Len(pendingCalls) < MaxPending
    /\ currentLanguage' = lang
    /\ pendingCalls' = Append(pendingCalls, lang)
    /\ langPending' = langPending + 1
    /\ trial' = NoTrial
    /\ UNCHANGED <<currentMode, germanCities, currentChallenge, isRecording,
                   recordTimeoutId, evaluating, pendingAdvance, display,
                   initVars, scoreVars, deviceVars, workerVars, timers,
                   languageSettings>>

\* the put request of a suspended setLanguage call succeeded or failed.
\* After a success the call runs to its end before another task does: the
\* awaits of whisperSTT.setLanguage and espeakTTS.setLanguage resume in
\* microtasks.  After a failure the call is rejected at its first await
saveLanguageSettled(ok) ==
    \E k \in settlesNext(pendingCalls) :
        /\ pendingCalls' = SubSeq(pendingCalls, 1, k - 1)
                               \o SubSeq(pendingCalls, k + 1, Len(pendingCalls))
        /\ langPending' = langPending - 1
        /\ IF ok
           THEN /\ languageSettings' = [persisted |-> pendingCalls[k],
                                        whisperSTT |-> pendingCalls[k],
                                        espeakTTS |-> pendingCalls[k],
                                        rejected |-> FALSE]
                /\ IF currentMode = "output"
                   THEN nextChallenge
                   ELSE trial' = NoTrial /\ UNCHANGED <<currentChallenge, display>>
           ELSE /\ languageSettings' = [languageSettings EXCEPT !.rejected = TRUE]
                /\ trial' = NoTrial
                /\ UNCHANGED <<currentChallenge, display>>
        /\ UNCHANGED <<currentLanguage, currentMode, germanCities, isRecording,
                       recordTimeoutId, evaluating, pendingAdvance, initVars,
                       scoreVars, deviceVars, workerVars, timers>>

NextLanguage ==
    \/ \E lang \in Languages : setLanguageCall(lang)
    \/ \E ok \in BOOLEAN : saveLanguageSettled(ok)
    \/ \E mode \in Modes : setMode(mode)

SpecLanguage == Init /\ [][NextLanguage]_vars

\* the capture pipeline with the recording timeout
NextTimer ==
    \/ startRecordingCapture
    \/ \E chunk \in Chunks : onaudioprocess(chunk)
    \/ stopRecordingCapture
    \/ recordTimeoutCapture

SpecTimer == InitAudio /\ [][NextTimer]_vars

(***************************************************************************)
(* The gain step and resample on their own, applied to a buffer.           *)
(***************************************************************************)
\* the sample 0.01 of a Float32Array: 10737418 * 2^-30, just below 0.01
NearHundredth == Fround(Hundredth)

\* samples of the buffers: silence, two quiet samples, the largest sample
\* below 0.01, the smallest multiple of 1/1024 above it and a loud sample
SampleValues ==
    {SampleOf(0), SampleOf(3), SampleOf(-5), NearHundredth, SampleOf(11),
     SampleOf(-512)}

Buffers == SeqsUpTo(SampleValues, MaxSamples)

\* capture rates given to resample
ResampleRates == {8000, 16000, 22050, 44100, 48000}

InitBuffer ==
    /\ currentLanguage = "en"
    /\ currentMode = "output"
    /\ germanCities = <<>>
    /\ currentChallenge = NoChallenge
    /\ isRecording = FALSE
    /\ recordTimeoutId = FALSE
    /\ evaluating = 0
    /\ langPending = 0
    /\ pendingAdvance = 0
    /\ display = blankDisplay
    /\ trial = NoTrial
    /\ initStep = "storage" /\ failed = {} /\ listening = FALSE
    /\ audioProcessor = NoProcessor /\ audioData = <<>> /\ events = <<>>
    /\ whisperCall = NoCall
    /\ PlatformAtRest
    /\ arg1 \in Buffers
    /\ arg2 = <<>>
    /\ scored = NotScored

\* the gain step of AudioProcessor.stopRecording on the buffer arg1
gainStep ==
    /\ scored.kind = "none"
    /\ Len(arg1) > 0
    /\ scored' = [kind |-> "gain", out |-> applyGain(arg1), rate |-> 0]
    /\ UNCHANGED <<appVars, initVars, arg1, arg2, deviceVars, platformVars>>

\* this.resample(result, fromRate, 16000) on the buffer arg1
resampleStep(fromRate) ==
    /\ scored.kind = "none"
    /\ Len(arg1) > 0
    /\ scored' = [kind |-> "resample",
                  out |-> resample(arg1, fromRate, targetSampleRate),
                  rate |-> fromRate]
    /\ UNCHANGED <<appVars, initVars, arg1, arg2, deviceVars, platformVars>>

NextBuffer ==
    \/ gainStep
    \/ \E fromRate \in ResampleRates : resampleStep(fromRate)

SpecBuffer == InitBuffer /\ [][NextBuffer]_vars

(***************************************************************************)
(* resample on its own, for pairs of rates.                                *)
(***************************************************************************)
\* small rates, for ratios that are whole, halves, thirds, ..., and the
\* rates of audio devices
RatePairs ==
    ({1, 2, 3, 5, 7, 8} \X {1, 2, 3, 5, 7, 8})
        \cup ({8000, 11025, 16000, 22050, 32000, 44100, 48000}
                \X {8000, 11025, 16000, 22050, 32000, 44100, 48000})

\* inputs of n samples 1/1024, 2/1024, ..., n/1024
Ramps == {[i \in 1..n |-> SampleOf(i)] : n \in 1..MaxFrames}

InitResample ==
    /\ currentLanguage = "en"
    /\ currentMode = "output"
    /\ germanCities = <<>>
    /\ currentChallenge = NoChallenge
    /\ isRecording = FALSE
    /\ recordTimeoutId = FALSE
    /\ evaluating = 0
    /\ langPending = 0
    /\ pendingAdvance = 0
    /\ display = blankDisplay
    /\ trial = NoTrial
    /\ initStep = "storage" /\ failed = {} /\ listening = FALSE
    /\ audioProcessor = NoProcessor /\ audioData = <<>> /\ events = <<>>
    /\ whisperCall = NoCall
    /\ PlatformAtRest
    /\ arg1 \in Ramps
    /\ arg2 \in RatePairs
    /\ scored = NotScored

\* resample(arg1, fromRate, toRate) for the pair of rates arg2
resampleCall ==
    /\ scored.kind = "none"
    /\ scored' = [kind |-> "resample", out |-> resample(arg1, arg2[1], arg2[2]),
                  rate |-> arg2[1]]
    /\ UNCHANGED <<appVars, initVars, arg1, arg2, deviceVars, platformVars>>

NextResample == resampleCall

SpecResample == InitResample /\ [][NextResample]_vars

(***************************************************************************)
(* The start of whisperSTT.transcribe on its own, applied to a buffer.     *)
(***************************************************************************)
\* buffers around the minimum length: one sample short of a second, a
\* second, and one sample more, of a loud sample
LongBuffers ==
    {[i \in 1..n |-> SampleOf(-512)] :
        n \in {minSamples - 1, minSamples, minSamples + 1}}

\* short buffers given to transcribe: silence, two quiet samples and a loud
\* one
PadBuffers == SeqsUpTo({SampleOf(0), SampleOf(3), SampleOf(-5), SampleOf(-512)}, MaxSamples)

InitPad ==
    /\ currentLanguage = "en"
    /\ currentMode = "output"
    /\ germanCities = <<>>
    /\ currentChallenge = NoChallenge
    /\ isRecording = FALSE
    /\ recordTimeoutId = FALSE
    /\ evaluating = 0
    /\ langPending = 0
    /\ pendingAdvance = 0
    /\ display = blankDisplay
    /\ trial = NoTrial
    /\ initStep = "storage" /\ failed = {} /\ listening = FALSE
    /\ audioProcessor = NoProcessor /\ audioData = <<>> /\ events = <<>>
    /\ whisperCall = NoCall
    /\ PlatformAtRest
    /\ arg1 \in PadBuffers \cup LongBuffers
    /\ arg2 = <<>>
    /\ scored = NotScored

\* whisperSTT.transcribe(arg1) up to the call of Module.full_default
handOver ==
    /\ scored.kind = "none"
    /\ scored' = transcribeHandOver(arg1)
    /\ UNCHANGED <<appVars, initVars, arg1, arg2, deviceVars, platformVars>>

NextPad == handOver

SpecPad == InitPad /\ [][NextPad]_vars

(***************************************************************************)
(* One call of whisperSTT.transcribe on an initialized recognizer, with    *)
(* its timers.  The clock counts seconds since the call; a timer fires in  *)
(* the second it is due, so the clock does not pass the due time of an     *)
(* armed timer.  The delay of 100 ms before finish ends within the second  *)
(* after the one it was set in.  Module.full_default is the entry of       *)
(* whisper.wasm: it returns at once and the recognizer prints from its     *)
(* worker, during the call or after it.                                    *)
(***************************************************************************)
timeoutSeconds == 30
checkIntervalSeconds == 2
silenceSeconds == 20

\* buffers given to transcribe: an empty one, a silent one and one with sound
CallBuffers == {<<>>, <<SampleOf(0)>>, <<SampleOf(3), SampleOf(-5)>>}

\* what the recognizer prints: a transcription line, another line, or the
\* timing summary with 'total time'
OutputKinds == {"line", "other", "total"}

InitWhisper ==
    /\ currentLanguage = "en"
    /\ currentMode = "output"
    /\ germanCities = <<>>
    /\ currentChallenge = NoChallenge
    /\ isRecording = FALSE
    /\ recordTimeoutId = FALSE
    /\ evaluating = 0
    /\ langPending = 0
    /\ pendingAdvance = 0
    /\ display = blankDisplay
    /\ trial = NoTrial
    /\ initStep = "storage" /\ failed = {} /\ listening = FALSE
    /\ audioProcessor = NoProcessor /\ audioData = <<>> /\ events = <<>>
    /\ whisperCall = NoCall
    /\ PlatformAtRest
    /\ arg1 = <<>>
    /\ arg2 = <<>>
    /\ scored = NotScored

\* finish() of the promise
finish(call) ==
    IF call.completed THEN call
    ELSE [call EXCEPT !.completed = TRUE, !.timeout = FALSE,
                      !.checkInterval = 0, !.callbacks = FALSE,
                      !.state = IF call.state = "pending" THEN "resolved" ELSE @]

\* the callback of the 30 s timer without its rejection
timeoutCallbackQuiet(call) == [call EXCEPT !.timeout = FALSE, !.callbacks = FALSE]

\* the callback of setTimeout(..., 30000)
timeoutCallback(call) ==
    LET cleared == [call EXCEPT !.timeout = FALSE, !.callbacks = FALSE]
    IN  IF ~call.completed
        THEN [cleared EXCEPT !.completed = TRUE,
                             !.state = IF call.state = "pending" THEN "rejected" ELSE @,
                             !.error = IF call.state = "pending" THEN "timeout" ELSE @]
        ELSE cleared

\* transcribe(data) up to and into Module.full_default
transcribeBegin(data) ==
    /\ whisperCall.state = "none"
    /\ LET kind == transcribeHandOver(data).kind
       IN  whisperCall' =
             IF kind = "empty" THEN [NoCall EXCEPT !.state = "resolved"]
             ELSE IF kind = "silent"
             THEN [NoCall EXCEPT !.state = "rejected", !.error = "silent"]
             ELSE [NoCall EXCEPT !.state = "pending", !.calling = TRUE,
                                 !.timeout = TRUE,
                                 !.checkInterval = checkIntervalSeconds,
                                 !.callbacks = TRUE]
    /\ UNCHANGED <<appVars, initVars, scoreVars, audioProcessor, audioData, events,
                   platformVars>>

\* handleOutput(text), called for a line the recognizer prints
handleOutput(kind) ==
    /\ whisperCall.callbacks
    /\ whisperCall.outputLineCount < MaxOutputs
    /\ whisperCall' =
          [whisperCall EXCEPT
             !.outputLineCount = @ + 1,
             !.lastOutputTime = whisperCall.clock,
             !.transcriptionText = IF kind = "line" THEN TRUE ELSE @,
             !.finishTimers = IF kind = "total" THEN @ \cup {whisperCall.clock + 1} ELSE @]
    /\ UNCHANGED <<appVars, initVars, scoreVars, audioProcessor, audioData, events,
                   platformVars>>

\* Module.full_default returns 0, returns another code, or throws
fullDefaultReturns(outcome) ==
    /\ whisperCall.calling
    /\ whisperCall' =
          IF outcome = "zero" THEN [whisperCall EXCEPT !.calling = FALSE]
          ELSE [whisperCall EXCEPT
                  !.calling = FALSE, !.timeout = FALSE, !.checkInterval = 0,
                  !.callbacks = FALSE,
                  !.state = IF @ = "pending" THEN "rejected" ELSE @,
                  !.error = IF whisperCall.state = "pending" THEN outcome ELSE @]
    /\ UNCHANGED <<appVars, initVars, scoreVars, audioProcessor, audioData, events,
                   platformVars>>

\* the timer of setTimeout(() => finish(), 100) fires
finishTimerFires ==
    /\ ~whisperCall.calling
    /\ \E due \in whisperCall.finishTimers :
          whisperCall' = finish([whisperCall EXCEPT !.finishTimers = @ \ {due}])
    /\ UNCHANGED <<appVars, initVars, scoreVars, audioProcessor, audioData, events,
                   platformVars>>

\* the callback of setInterval(..., 2000) runs
checkIntervalFires ==
    /\ ~whisperCall.calling
    /\ whisperCall.checkInterval # 0
    /\ whisperCall.clock = whisperCall.checkInterval
    /\ LET next == [whisperCall EXCEPT !.checkInterval = @ + checkIntervalSeconds]
       IN  whisperCall' =
             IF /\ whisperCall.outputLineCount > 0
                /\ whisperCall.clock - whisperCall.lastOutputTime > silenceSeconds
                /\ ~whisperCall.completed
             THEN finish(next)
             ELSE next
    /\ UNCHANGED <<appVars, initVars, scoreVars, audioProcessor, audioData, events,
                   platformVars>>

\* the timer of setTimeout(..., 30000) fires
timeoutFires ==
    /\ ~whisperCall.calling
    /\ whisperCall.timeout
    /\ whisperCall.clock = timeoutSeconds
    /\ whisperCall' = timeoutCallback(whisperCall)
    /\ UNCHANGED <<appVars, initVars, scoreVars, audioProcessor, audioData, events,
                   platformVars>>

\* a second passes; no armed timer is left behind
tick ==
    /\ whisperCall.state # "none"
    /\ ~whisperCall.calling
    /\ whisperCall.clock < MaxClock
    /\ whisperCall.timeout => whisperCall.clock < timeoutSeconds
    /\ whisperCall.checkInterval # 0 => whisperCall.clock < whisperCall.checkInterval
    /\ \A due \in whisperCall.finishTimers : whisperCall.clock < due
    /\ whisperCall' = [whisperCall EXCEPT !.clock = @ + 1]
    /\ UNCHANGED <<appVars, initVars, scoreVars, audioProcessor, audioData, events,
                   platformVars>>

NextWhisper ==
    \/ \E data \in CallBuffers : transcribeBegin(data)
    \/ \E kind \in OutputKinds : handleOutput(kind)
    \/ \E outcome \in {"zero", "failed", "thrown"} : fullDefaultReturns(outcome)
    \/ finishTimerFires
    \/ checkIntervalFires
    \/ timeoutFires
    \/ tick

SpecWhisper == InitWhisper /\ [][NextWhisper]_vars

(***************************************************************************)
(* Properties of the decision policies (specification Spec).               *)
(***************************************************************************)

alfa == <<"a","l","f","a">>

bravo == <<"b","r","a","v","o">>

bun == <<"b","u","n">>

charl == <<"c","h","a","r","l">>

\* the verdict the transcription element shows: "correct" is ACCEPTED,
\* "incorrect" and the no-answer error are REJECTED
ShownVerdict ==
    CASE display.className = "correct" -> "ACCEPTED"
      [] display.className \in {"incorrect", "error"} -> "REJECTED"
      [] OTHER -> "NONE"

\* the verdict of the checkAnswer call that has just returned: none when it
\* threw before it wrote to the transcription element
Verdict == IF trial.thrown THEN "NONE" ELSE ShownVerdict

ClosedTrial == trial.policy = "single"

OpenTrial == trial.policy = "cities"

\* C1 as stated: under the closed-vocabulary policy with expected answer
\* "Alpha", the transcript "alfa" is ACCEPTED and "bravo" is REJECTED.
C1_AlfaAccepted ==
    (ClosedTrial /\ trial.challenge.word = Alpha)
        => /\ trial.normalized = alfa => Verdict = "ACCEPTED"
           /\ trial.normalized = bravo => Verdict = "REJECTED"

\* C1 amended: under the closed-vocabulary policy with expected answer
\* "Alpha", the transcript "alfa" is REJECTED (edit distance 2 of 5, a
\* similarity below 0.7) and the transcript "bravo" is REJECTED.
C1_AlfaRejected ==
    (ClosedTrial /\ trial.challenge.word = Alpha)
        => /\ trial.normalized = alfa
                => /\ Verdict = "REJECTED"
                   /\ levenshteinDistance(alfa, trial.expected) = 2
                   /\ FLess(trial.similarity, threshold)
           /\ trial.normalized = bravo => Verdict = "REJECTED"

C1_Witness ==
    ClosedTrial /\ trial.challenge.word = Alpha /\ trial.normalized = alfa

\* similarity of a searched city, as the scoring loop computes it
SimOf(city) == citySimilarity(trial.normalized, normalizeText(city))

\* the positions of the searched list whose score equals that of position i
TiedWith(i) ==
    {k \in 1..Len(trial.searched) :
        FEq(SimOf(trial.searched[k]), SimOf(trial.searched[i]))}

\* position i of the searched list holds a maximal score
IsMaximal(i) ==
    \A k \in 1..Len(trial.searched) :
        ~FGreater(SimOf(trial.searched[k]), SimOf(trial.searched[i]))

Least(S) == CHOOSE x \in S : \A y \in S : x <= y

\* C2: for any non-empty candidate list and any normalized transcript,
\* checkAnswerWithCities selects a candidate whose similarity is the maximum
\* over all searched candidates (also when every similarity is negative);
\* among the candidates tied at the maximum it selects the expected word if
\* that word is in the tie set, otherwise the first tied candidate.
C2_SelectsMaximum ==
    (OpenTrial /\ trial.searched # <<>>)
        => /\ trial.bestMatch # <<>>
           /\ \E i \in 1..Len(trial.searched) :
                /\ IsMaximal(i)
                /\ trial.bestMatch[1] =
                     IF \E k \in TiedWith(i) :
                            trial.searched[k] = trial.challenge.word
                     THEN trial.challenge.word
                     ELSE trial.searched[Least(TiedWith(i))]

\* C3: under the open-vocabulary policy the verdict is ACCEPTED if and only
\* if the normalized form of the selected best candidate equals the
\* normalized form of the challenge's expected word.
C3_OpenVerdict ==
    OpenTrial
        => ((Verdict = "ACCEPTED")
              <=> /\ trial.bestMatch # <<>>
                  /\ normalizeText(trial.bestMatch[1])
                       = normalizeText(trial.challenge.word))

\* an accepted open-vocabulary trial whose best match is the expected word
C3_Witness ==
    /\ OpenTrial /\ Verdict = "ACCEPTED"
    /\ trial.bestMatch = <<trial.challenge.word>>
    /\ Len(trial.searched) > 1

\* C4 as stated: under the closed-vocabulary policy the verdict is ACCEPTED
\* if and only if the similarity with the length-difference penalty (the
\* score of the city matcher) between normalized transcript and normalized
\* expected word is at least 0.7.
C4_PenalizedThreshold ==
    ClosedTrial
        => ((Verdict = "ACCEPTED")
              <=> FGeq(citySimilarity(trial.normalized, trial.expected),
                       threshold))

\* C4 amended: under the closed-vocabulary policy the verdict is ACCEPTED if
\* and only if 1 - distance / max length, without a length-difference
\* penalty, is at least 0.7, that is max length > 0 and
\* 10 * distance <= 3 * max length; no candidate reduction or selection
\* takes part in the decision.
C4_PlainThreshold ==
    ClosedTrial
        => LET distance  == levenshteinDistance(trial.normalized, trial.expected)
               maxLength == Max2(Len(trial.normalized), Len(trial.expected))
           IN  /\ (Verdict = "ACCEPTED")
                     <=> (maxLength > 0 /\ 10 * distance <= 3 * maxLength)
               /\ Verdict \in {"ACCEPTED", "REJECTED"}
               /\ trial.searched = <<>> /\ trial.bestMatches = <<>>

\* a closed-vocabulary trial accepted although the penalized score is
\* below the threshold
C4_Witness ==
    /\ ClosedTrial /\ Verdict = "ACCEPTED"
    /\ Len(trial.normalized) # Len(trial.expected)
    /\ FLess(citySimilarity(trial.normalized, trial.expected), threshold)

\* C9: with normalized transcript "bun", expected word "bonn" and a candidate
\* pool restricted to words whose leading unit is "b", "bonn" is selected
\* over every candidate that is longer than "bonn" and has a larger edit
\* distance to "bun" than "bonn" has.
C9_BonnOverLonger ==
    (OpenTrial /\ trial.normalized = bun /\ trial.challenge.word = Bonn
       /\ arrIncludes(trial.searched, Bonn))
        => /\ \A i \in 1..Len(trial.searched) :
                normalizeText(charAt0(trial.searched[i])) = <<"b">>
           /\ trial.bestMatch # <<>>
           /\ \A i \in 1..Len(trial.searched) :
                LET c == normalizeText(trial.searched[i])
                IN  (/\ Len(c) > Len(normalizeText(Bonn))
                     /\ levenshteinDistance(bun, c)
                          > levenshteinDistance(bun, normalizeText(Bonn)))
                        => trial.bestMatch[1] # trial.searched[i]

\* "bun" scored against "Bonn" and the longer, more distant "Bautzen"
C9_Witness ==
    /\ OpenTrial /\ trial.normalized = bun /\ trial.challenge.word = Bonn
    /\ arrIncludes(trial.searched, Bonn)
    /\ arrIncludes(trial.searched, Bautzen)
    /\ trial.bestMatch = <<Bonn>>

(***************************************************************************)
(* Properties of the scorer (specification SpecScore).                     *)
(***************************************************************************)
\* the double x is within 2^-50 of the rational num / den (den <= 200)
WithinRounding(x, num, den) ==
    /\ ~x.nan
    /\ LET sign == IF x.neg THEN 0 - 1 ELSE 1
           top  == sign * x.m[1] * den - num * Limb
       IN  /\ Abs(top) <= 1000
           /\ LET mid == top * Limb + sign * x.m[2] * den
              IN  /\ Abs(mid) <= 1000
                  /\ Abs(mid * Limb + sign * x.m[3] * den) <= den * 1024

\* the same Number, NaN included
SameNumber(x, y) == (x.nan /\ y.nan) \/ FEq(x, y)

\* C5: for every candidate scored by the open-vocabulary matcher the
\* similarity is min(1.0, 1 - d / max(len t, len c) - 0.05 * |len t - len c|)
\* with d the edit distance (as a double: within rounding of that rational,
\* and NaN for 0 / 0); it is not clamped from below, and it is the same
\* when t and c are swapped.
C5_CitySimilarityFormula ==
    scored.kind = "city"
        => LET d    == scored.distance
               L    == Max2(Len(arg1), Len(arg2))
               diff == Abs(Len(arg1) - Len(arg2))
               num  == 20 * L - 20 * d - L * diff
           IN  /\ IF L = 0 THEN scored.similarity.nan
                  ELSE /\ WithinRounding(scored.similarity, Min2(num, 20 * L), 20 * L)
                       /\ num < 0 => FLess(scored.similarity, Zero)
               /\ SameNumber(citySimilarity(arg2, arg1), scored.similarity)

\* a city score below zero
C5_Witness ==
    /\ scored.kind = "city" /\ FLess(scored.similarity, Zero)
    /\ Len(arg1) < Len(arg2)

\* C6: when both compared normalized strings are empty the computed
\* similarity is exactly 1.0 (denominator floored to 1, no division by zero).
C6_EmptyIsOne ==
    (scored.kind # "none" /\ arg1 = <<>> /\ arg2 = <<>>)
        => FEq(scored.similarity, One)

\* C7: similarity never exceeds 1.0 for any pair of strings, and of two
\* candidates of the same length scored against the same transcript the one
\* with the larger edit distance has the strictly smaller similarity.
C7_BoundedAndDecreasing ==
    /\ scored.kind # "none" => ~FGreater(scored.similarity, One)
    /\ scored.kind = "city"
         => \A c \in ScoreStrings :
                (/\ Len(c) = Len(arg2)
                 /\ levenshteinDistance(arg1, c) > scored.distance)
                    => FLess(citySimilarity(arg1, c), scored.similarity)

\* a scored candidate and a second one of its length farther from arg1
C7_Witness ==
    /\ scored.kind = "city"
    /\ \E c \in ScoreStrings :
            /\ Len(c) = Len(arg2)
            /\ levenshteinDistance(arg1, c) > scored.distance
            /\ scored.distance > 0

\* C8: for non-empty normalized strings a and b the similarity is 1.0
\* exactly when a and b are identical and strictly below 1.0 otherwise;
\* similarity("koln","koln") is 1.0 and exceeds similarity("koln","kronach").
C8_OneIffIdentical ==
    (scored.kind = "city" /\ arg1 # <<>> /\ arg2 # <<>>)
        => /\ FEq(scored.similarity, One) <=> (arg1 = arg2)
           /\ arg1 # arg2 => FLess(scored.similarity, One)
           /\ (arg1 = koln /\ arg2 = koln)
                => FGreater(scored.similarity, citySimilarity(koln, kronach))
           /\ (arg1 = koln /\ arg2 = kronach)
                => FLess(scored.similarity, citySimilarity(koln, koln))

C8_Witness == scored.kind = "city" /\ arg1 = koln /\ arg2 = koln

\* the strings one insertion, deletion or substitution away from s
editSteps(s, chars) ==
    {SubSeq(s, 1, i - 1) \o SubSeq(s, i + 1, Len(s)) : i \in 1..Len(s)}
        \cup {[s EXCEPT ![i] = c] : i \in 1..Len(s), c \in chars}
        \cup {SubSeq(s, 1, i) \o <<c>> \o SubSeq(s, i + 1, Len(s)) :
                  i \in 0..Len(s), c \in chars}

\* the least number of edits after which b is reached, by breadth-first
\* search from the set reached with k edits
RECURSIVE minEdits(_, _, _, _)
minEdits(reached, b, chars, k) ==
    IF b \in reached THEN k
    ELSE minEdits(reached \cup UNION {editSteps(s, chars) : s \in reached},
                  b, chars, k + 1)

MinEdits(a, b) == minEdits({a}, b, ScoreChars, 0)

OverScoreChars(s) == \A i \in 1..Len(s) : s[i] \in ScoreChars

\* C10: levenshteinDistance(a, b) is the minimum number of single-character
\* insertions, deletions and substitutions that transform a into b, for all
\* strings including empty ones; it is symmetric and 0 only for identical
\* strings.
C10_MinimumEdits ==
    scored.kind # "none"
        => /\ (OverScoreChars(arg1) /\ OverScoreChars(arg2))
                => scored.distance = MinEdits(arg1, arg2)
           /\ scored.distance = levenshteinDistance(arg2, arg1)
           /\ (scored.distance = 0) <=> (arg1 = arg2)

\* two different non-empty strings of different lengths were scored
C10_Witness ==
    /\ scored.kind # "none" /\ scored.distance >= 2
    /\ arg1 # <<>> /\ Len(arg1) < Len(arg2)
    /\ OverScoreChars(arg1) /\ OverScoreChars(arg2)

(***************************************************************************)
(* C11: the candidate set of the open-vocabulary matcher.                  *)
(***************************************************************************)
\* positions of the gazetteer entries whose normalized first character is
\* the normalized letter
MatchingAt(cities, letter) ==
    {i \in 1..Len(cities) :
        normalizeText(<<cities[i][1]>>) = normalizeText(letter)}

\* C11: under the open-vocabulary policy the searched list is exactly the
\* gazetteer entries whose normalized first character equals the normalized
\* challenge letter, in gazetteer order, or the whole gazetteer when no
\* entry matches; it is never empty, and it contains the expected word
\* whenever that word is a gazetteer entry matching the letter
C11_CandidateSet ==
    trial.policy = "cities" =>
        LET matching == MatchingAt(germanCities, trial.challenge.letter)
        IN  /\ trial.searched = IF matching = {} THEN germanCities
                                ELSE linesAt(germanCities, matching)
            /\ Len(trial.searched) > 0
            /\ (\E i \in matching : germanCities[i] = trial.challenge.word)
                   => arrIncludes(trial.searched, trial.challenge.word)

\* the filter removed an entry and kept the expected word
C11_Witness ==
    /\ trial.policy = "cities"
    /\ Len(trial.searched) < Len(germanCities)
    /\ arrIncludes(trial.searched, trial.challenge.word)

\* no entry matched the letter and the whole gazetteer was searched
C11_WitnessFallback ==
    /\ trial.policy = "cities"
    /\ MatchingAt(germanCities, trial.challenge.letter) = {}
    /\ trial.searched = germanCities

(***************************************************************************)
(* Properties of normalizeText (specification SpecText).                   *)
(***************************************************************************)
\* C12: normalizeText is idempotent: applied to its own result it returns
\* that result unchanged
C12_Idempotent ==
    scored.kind = "normalized" => scored.twice = scored.once

\* a text that normalizeText changed into a non-empty result
C12_Witness ==
    /\ scored.kind = "normalized"
    /\ scored.once # <<>>
    /\ scored.once # arg1
    /\ scored.twice = scored.once

\* what the claim says becomes of each raw character
ImageOf ==
    [c \in RawChars \cup {"G", "R", "OE", "E"} |->
        CASE c = "A"  -> <<"a">>
          [] c = "b"  -> <<"b">>
          [] c = "G"  -> <<"g">>
          [] c = "R"  -> <<"r">>
          [] c = "E"  -> <<"e">>
          [] c = "AE" -> <<"a">>
          [] c = "OE" -> <<"o">>
          [] c = "oe" -> <<"o">>
          [] c = "sz" -> <<"s","s">>
          [] c = "1"  -> <<"1">>
          [] c \in {" ", "!"} -> <<>>]

\* the images of the characters of text, in order
ImagesOf(text) ==
    LET upTo[i \in 0..Len(text)] ==
            IF i = 0 THEN <<>> ELSE upTo[i - 1] \o ImageOf[text[i]]
    IN  upTo[Len(text)]

SpecialSymbol(challenge) ==
    challenge.letter \in {<<"AE">>, <<"OE">>, <<"UE">>, <<"sz">>}

\* the challenge was drawn from the alphabet of language
ChallengeOf(language, challenge) == challenge \in alphabets[language]

\* C14: the open-vocabulary policy decides a challenge only when the active
\* language is German, its city list is loaded and non-empty and the
\* challenge is not a special symbol (an Umlaut entry or Eszett); every
\* other challenge is decided by the closed single-target policy
C14_PolicyChoice ==
    trial.policy \in {"cities", "single"} =>
        /\ trial.policy = "cities" =>
               /\ currentLanguage = "de"
               /\ germanCities # <<>>
               /\ ~SpecialSymbol(trial.challenge)
        /\ (\/ ChallengeOf("en", trial.challenge)
            \/ germanCities = <<>>
            \/ SpecialSymbol(trial.challenge)) => trial.policy = "single"

\* the policy choice for every challenge of the active language but Eszett
C14_ExceptEszett ==
    (/\ trial.policy \in {"cities", "single"}
     /\ ChallengeOf(currentLanguage, trial.challenge)
     /\ trial.challenge.word # Eszett) =>
        (trial.policy = "cities" <=>
            /\ currentLanguage = "de"
            /\ germanCities # <<>>
            /\ ~SpecialSymbol(trial.challenge))

\* Eszett decided by the open-vocabulary policy
C14_EszettOpen ==
    /\ trial.policy = "cities"
    /\ currentLanguage = "de"
    /\ trial.challenge.word = Eszett

(***************************************************************************)
(* C15: the short circuit of checkAnswer (specification SpecCheck).        *)
(***************************************************************************)
\* C15: when the transcript is empty or there is no current challenge,
\* checkAnswer shows 'No answer detected' as a rejection and schedules the
\* advancement without normalizing, searching or scoring anything; with a
\* transcript and a challenge one of the two policies runs
C15_NoAnswer ==
    trial # NoTrial =>
        IF arg1 = <<>> \/ currentChallenge = NoChallenge
        THEN /\ trial.policy = "noanswer"
             /\ display = [text |-> "No answer detected", className |-> "error"]
             /\ ShownVerdict = "REJECTED"
             /\ pendingAdvance = 1
             /\ trial.normalized = <<>> /\ trial.expected = <<>>
             /\ trial.searched = <<>> /\ trial.bestMatches = <<>>
             /\ ~trial.thrown
        ELSE trial.policy \in {"cities", "single"}

\* an empty transcript for a challenge
C15_Witness ==
    /\ trial.policy = "noanswer"
    /\ arg1 = <<>>
    /\ currentChallenge # NoChallenge
    /\ ShownVerdict = "REJECTED"

\* a transcript and no challenge
C15_WitnessNoChallenge ==
    /\ trial.policy = "noanswer"
    /\ arg1 # <<>>
    /\ currentChallenge = NoChallenge
    /\ ShownVerdict = "REJECTED"

(***************************************************************************)
(* C16: recordings and evaluations.                                        *)
(***************************************************************************)
\* C16: while an attempt is evaluated (its capture has stopped, its
\* transcript has not been checked yet) no recording is running, because a
\* start-recording signal begins none; at most one attempt is in evaluation
C16_OneEvaluation ==
    /\ evaluating <= 1
    /\ ~(isRecording /\ evaluating > 0)

\* a recording started during an evaluation
C16_RecordingWhileEvaluating == isRecording /\ evaluating = 1

\* two attempts in evaluation at once
C16_TwoEvaluations == evaluating = 2

(***************************************************************************)
(* C17: the challenge and the active language.                             *)
(***************************************************************************)
\* C17: at every moment the current challenge is a letter of the alphabet
\* of the active language with that alphabet's word for it, and so is the
\* challenge of every answer that is evaluated
C17_ChallengeOfActiveLanguage ==
    /\ ChallengeOf(currentLanguage, currentChallenge)
    /\ trial # NoTrial => ChallengeOf(currentLanguage, trial.challenge)

\* an answer evaluated against a challenge of the other language
C17_EvaluatedStale ==
    /\ trial.policy \in {"cities", "single"}
    /\ ~ChallengeOf(currentLanguage, trial.challenge)

\* a challenge of the other language with no handler suspended: input mode
\* after a language switch
C17_StaleAtRest ==
    /\ ~ChallengeOf(currentLanguage, currentChallenge)
    /\ inFlight = 0

(***************************************************************************)
(* C18: the outcome of an evaluation (specification SpecCheck).            *)
(***************************************************************************)
\* checkAnswer ran on a transcript with a challenge
Evaluated == trial # NoTrial /\ arg1 # <<>> /\ currentChallenge # NoChallenge

\* one verdict with its message, one advancement, sooner after ACCEPTED
VerdictAndAdvance ==
    /\ ShownVerdict \in {"ACCEPTED", "REJECTED"}
    /\ display.text \in {"Correct", "You said", "Wrong"}
    /\ pendingAdvance = 1
    /\ ShownVerdict = "ACCEPTED" => trial.delay \in {1500, 2000}
    /\ ShownVerdict = "REJECTED" => trial.delay = 3000

\* C18: every evaluation of a non-empty transcript against a challenge ends
\* in exactly one of ACCEPTED and REJECTED with a result message and
\* schedules exactly one advancement, after a shorter delay when ACCEPTED
C18_VerdictAndAdvance == Evaluated => VerdictAndAdvance

\* the same for the evaluations that did not throw
C18_UnlessThrown == (Evaluated /\ ~trial.thrown) => VerdictAndAdvance

\* an evaluation that ended without verdict and without advancement
C18_NoVerdict ==
    /\ Evaluated
    /\ trial.thrown
    /\ ShownVerdict = "NONE"
    /\ pendingAdvance = 0
    /\ ChallengeOf(currentLanguage, currentChallenge)

(***************************************************************************)
(* C19: recognizer failures and empty captures.                            *)
(***************************************************************************)
\* a suspended stopRecording call ends without a transcript
FailureStep == noAudio \/ transcribeFailed

InitOver == initStep \in {"done", "aborted"}

\* the handlers are installed and a first challenge is shown
Usable == listening /\ ChallengeOf(currentLanguage, currentChallenge)

\* C20: a failure to load the alphabet data is the only start-up failure
\* that leaves the session unusable; when the recognizer, the text-to-speech
\* engine, the microphone or the city list fails, init still installs the
\* event handlers and generates a first challenge
C20_OnlyAlphabetsFatal ==
    InitOver =>
        /\ ~Usable => "alphabets" \in failed
        /\ (/\ failed # {}
            /\ failed \subseteq {"stt", "tts", "microphone", "cities"})
               => Usable

\* the same without the recognizer: text-to-speech, microphone and city
\* list failures leave the session usable
C20_OthersSurvive ==
    (InitOver /\ failed \subseteq {"tts", "microphone", "cities"}) => Usable

\* the recognizer failed to initialise and init() returned without
\* installing a handler or generating a challenge
C20_RecognizerFatal ==
    /\ initStep = "aborted"
    /\ failed \subseteq {"stt", "cities"} /\ "stt" \in failed
    /\ ~listening
    /\ currentChallenge = NoChallenge

\* text-to-speech, microphone and city list all failed and the session runs
C20_AllOthersFailed ==
    /\ initStep = "done"
    /\ failed = {"tts", "microphone", "cities"}
    /\ Usable

(***************************************************************************)
(* C21: the recording timeout.                                             *)
(***************************************************************************)
\* C21: the recording timeout is pending exactly while a recording runs, so
\* a manual stop cancels it and it never stops anything afterwards; when it
\* fires, the recording is stopped and handed on exactly as by a manual stop
C21_AutoStop ==
    /\ [](recordTimeoutId <=> isRecording)
    /\ [][recordTimeout => (isRecording /\ stopRecording(FALSE))]_vars

\* a recording runs, its timeout is pending and its callback can stop it
C21_Witness ==
    /\ isRecording /\ recordTimeoutId
    /\ ENABLED recordTimeout

\* a recording was stopped and is processed, no timeout left pending
C21_WitnessStopped ==
    /\ ~isRecording /\ ~recordTimeoutId
    /\ evaluating = 1
    /\ display = [text |-> "Processing", className |-> "processing"]

Punctuation == {".", "!"}

\* a text without its punctuation and surrounding whitespace, in lowercase
Plain(s) == toLowerCase(trim(SelectSeq(s, LAMBDA x : x \notin Punctuation)))

\* checkAnswer decided a challenge of the active language on a transcript
\* that is its expected word up to case, surrounding whitespace and
\* punctuation
SaidExpected ==
    /\ trial.policy \in {"cities", "single"}
    /\ ChallengeOf(currentLanguage, trial.challenge)
    /\ Plain(trial.transcription) = Plain(trial.challenge.word)

\* C29: for every challenge in either language, a transcript that equals
\* the challenge's expected word up to letter case, surrounding whitespace
\* and punctuation is judged correct
C29_ExpectedJudgedCorrect ==
    SaidExpected => (~trial.thrown /\ trial.isCorrect)

\* the expected word is judged correct whenever the closed policy decides,
\* and under the open-vocabulary policy whenever the word is one of the
\* cities searched
C29_CorrectWhenSearched ==
    (/\ SaidExpected
     /\ \/ trial.policy = "single"
        \/ arrIncludes(trial.searched, trial.challenge.word)) =>
        (~trial.thrown /\ trial.isCorrect)

\* 'eszett!' said for the challenge Eszett and judged incorrect
C29_EszettRejected ==
    /\ SaidExpected
    /\ trial.challenge.word = Eszett
    /\ trial.policy = "cities"
    /\ ~trial.isCorrect
    /\ display.className = "incorrect"

\* ' ALPHA' said for the challenge Alpha and judged correct
C29_Witness ==
    /\ SaidExpected
    /\ trial.challenge.word = Alpha
    /\ trial.isCorrect
    /\ display.className = "correct"

(***************************************************************************)
(* Properties of the capture pipeline (specification SpecAudio).           *)
(***************************************************************************)
\* C22: when the microphone stream or the audio context was never acquired,
\* AudioProcessor.startRecording fails with 'AudioProcessor not
\* initialized' without entering the recording state or buffering a chunk,
\* and the application afterwards is not recording and has no auto-stop
\* timer armed
C22_StartFailsClean ==
    ~audioProcessor.ready =>
        /\ ~audioProcessor.recording
        /\ ~audioProcessor.processor
        /\ audioProcessor.samples = <<>>
        /\ ~isRecording
        /\ ~recordTimeoutId
        /\ evaluating = 0
        /\ events # <<>> =>
               display.text = "Error: AudioProcessor not initialized"

\* two start signals on a processor without a stream, both failed
C22_Witness ==
    /\ ~audioProcessor.ready
    /\ events = <<StartSignal, StartSignal>>
    /\ display.text = "Error: AudioProcessor not initialized"
    /\ ~isRecording
    /\ ~recordTimeoutId

\* C23: when a capture yields zero samples, AudioProcessor.stopRecording
\* returns an empty buffer, the application reports '(no audio recorded)'
\* and the recognizer is not invoked
C23_EmptyCapture ==
    [][(stopRecordingCapture /\ concatenate(audioProcessor.samples) = <<>>) =>
          /\ audioData' = <<>>
          /\ display'.text = "(no audio recorded)"
          /\ evaluating' = evaluating
          /\ ~isRecording'
          /\ ~audioProcessor'.recording]_vars

\* a recording with audio, then one that was stopped before its first chunk
C23_Witness ==
    /\ \E chunk \in Chunks :
           events = <<StartSignal, Delivery(chunk), StopSignal,
                      StartSignal, StopSignal>>
    /\ audioData = <<>>
    /\ display.text = "(no audio recorded)"
    /\ evaluating = 1

(***************************************************************************)
(* C28: which chunks a capture returns.                                    *)
(***************************************************************************)
\* the last signal was a stop signal
JustStopped == events # <<>> /\ events[Len(events)] = StopSignal

\* the position of the last start signal
LastStart ==
    CHOOSE i \in 1..Len(events) :
        /\ events[i] = StartSignal
        /\ \A j \in (i + 1)..Len(events) : events[j] # StartSignal

\* the chunks delivered after the last start signal, in delivery order
DeliveredSinceStart ==
    LET later == SubSeq(events, LastStart + 1, Len(events))
        sel   == SelectSeq(later, LAMBDA e : e.kind = "chunk")
    IN  [i \in 1..Len(sel) |-> sel[i].chunk]

\* C28 as stated: the buffer returned by AudioProcessor.stopRecording is
\* the concatenation, in delivery order, of exactly the chunks delivered
\* between the matching start and stop signals, and the chunk list is empty
\* afterwards
C28_IsConcatenation ==
    /\ JustStopped => audioData = concatenate(DeliveredSinceStart)
    /\ ~audioProcessor.recording => audioProcessor.samples = <<>>

\* C28: the buffer returned by AudioProcessor.stopRecording is computed
\* from the concatenation, in delivery order, of exactly the chunks
\* delivered between the matching start and stop signals, by the gain step
\* and the resampling to 16 kHz; it is that concatenation itself when the
\* capture rate is 16 kHz and the peak is 0 or at least 0.01.  Chunks
\* delivered before that start or after the stop are never included, and
\* the chunk list is empty whenever no recording is running
C28_FromConcatenation ==
    /\ JustStopped =>
           LET result == concatenate(DeliveredSinceStart)
           IN  /\ audioData = resample(applyGain(result),
                                       audioProcessor.sampleRate, 16000)
               /\ (/\ audioProcessor.sampleRate = 16000
                   /\ \/ peak(result) = NumZero
                      \/ ~NumLess(peak(result), Hundredth)) =>
                      audioData = result
    /\ audioProcessor.recording =>
           audioProcessor.samples = DeliveredSinceStart
    /\ ~audioProcessor.recording => audioProcessor.samples = <<>>

\* a second recording at 16 kHz returns its own loud chunk only
C28_Witness ==
    /\ audioProcessor.sampleRate = 16000
    /\ events = <<StartSignal, Delivery(<<SampleOf(3), SampleOf(-5)>>),
                  StopSignal, StartSignal,
                  Delivery(<<SampleOf(512), SampleOf(3)>>), StopSignal>>
    /\ audioData = <<SampleOf(512), SampleOf(3)>>
    /\ audioProcessor.samples = <<>>

\* a chunk that arrived after the stop is in no buffer
C28_WitnessLate ==
    /\ events = <<StartSignal, Delivery(<<SampleOf(512), SampleOf(3)>>),
                  StopSignal, Delivery(<<SampleOf(3), SampleOf(-5)>>),
                  StartSignal, StopSignal>>
    /\ audioData = <<>>
    /\ audioProcessor.samples = <<>>

\* a quiet capture at 48 kHz: the buffer returned is shorter than the
\* concatenation and its samples are amplified
C28_WitnessProcessed ==
    /\ JustStopped
    /\ audioProcessor.sampleRate = 48000
    /\ Len(concatenate(DeliveredSinceStart)) = 4
    /\ Len(audioData) = 1
    /\ audioData # SubSeq(concatenate(DeliveredSinceStart), 1, 1)

(***************************************************************************)
(* Exact arithmetic on the values of samples, for stating what the audio   *)
(* functions compute: a value is (-1)^neg * man * 2^exp, never rounded.    *)
(***************************************************************************)
ExactTimes(x, k) == [neg |-> x.neg, man |-> NatMul(x.man, NatOf(k)), exp |-> x.exp]

ExactProd(x, y) ==
    [neg |-> x.neg # y.neg, man |-> NatMul(x.man, y.man), exp |-> x.exp + y.exp]

ExactMinus(x) == [neg |-> ~x.neg, man |-> x.man, exp |-> x.exp]

ExactDiff(x, y) == ExactSum(x, ExactMinus(y))

ExactScaled(x, k) == [neg |-> x.neg, man |-> x.man, exp |-> x.exp + k]

\* |x| <= |y|
AbsLeq(x, y) ==
    LET d == ExactSum([neg |-> FALSE, man |-> x.man, exp |-> x.exp],
                      [neg |-> TRUE, man |-> y.man, exp |-> y.exp])
    IN  d.man = <<>> \/ d.neg

\* the peak absolute amplitude of a buffer of numbers
PeakOf(buf) ==
    IF Len(buf) = 0 THEN NumZero
    ELSE CHOOSE v \in {NumAbs(buf[i]) : i \in 1..Len(buf)} :
            \A i \in 1..Len(buf) : AbsLeq(buf[i], v)

\* 0 < p < 0.01, with 0.01 the decimal fraction
BelowHundredth(p) == p.man # <<>> /\ ~AbsLeq(NumOne, ExactTimes(p, 100))

\* 0.1 as a Float32Array holds it: 13421773 * 2^-27
TenthFloat32 == Num(FALSE, NatOf(13421773), -27)

\* y is x * 0.1 / p to the precision of a Float32Array element:
\* |10 * p * y - x| <= 2^-23 * |x|
ScaledByTenthOver(x, p, y) ==
    ~y.nan /\ AbsLeq(ExactDiff(ExactProd(ExactTimes(p, 10), y), x), ExactScaled(x, -23))

\* C25: when the peak absolute amplitude p of the captured buffer satisfies
\* 0 < p < 0.01, the gain step multiplies every sample by 0.1 / p, the new
\* peak is 0.1 (as a Float32Array holds it) and no sample exceeds 1.0 in
\* magnitude; when p is 0 or at least 0.01 the samples are left unchanged.
C25_GainStep ==
    scored.kind = "gain" =>
        LET p == PeakOf(arg1) IN
        IF BelowHundredth(p)
        THEN /\ Len(scored.out) = Len(arg1)
             /\ \A i \in 1..Len(arg1) : ScaledByTenthOver(arg1[i], p, scored.out[i])
             /\ PeakOf(scored.out) = TenthFloat32
             /\ \A i \in 1..Len(arg1) : AbsLeq(scored.out[i], NumOne)
        ELSE scored.out = arg1

\* a quiet buffer with three different samples, the peak being the largest
\* Float32Array element below 0.01, after the gain step
C25_Witness ==
    /\ scored.kind = "gain"
    /\ arg1 = <<SampleOf(3), NearHundredth, SampleOf(-5)>>
    /\ BelowHundredth(PeakOf(arg1))
    /\ scored.out # arg1

\* a buffer whose peak is just above 0.01 after the gain step
C25_WitnessLoud ==
    /\ scored.kind = "gain"
    /\ arg1 = <<SampleOf(3), SampleOf(11)>>
    /\ ~BelowHundredth(PeakOf(arg1))

\* a silent buffer after the gain step
C25_WitnessSilent ==
    /\ scored.kind = "gain"
    /\ arg1 = <<SampleOf(0), SampleOf(0)>>

\* round(n * 16000 / rate), halves rounded up as Math.round does
RoundedLength(n, rate) == (2 * n * targetSampleRate + rate) \div (2 * rate)

\* y is the linear interpolation of the buffer at the source index
\* i * rate / 16000 = a + r / 16000, to the precision of a Float32Array
\* element: |16000 * y - (buf[a] * (16000 - r) + buf[a+1] * r)| is at most
\* 16000 * 2^-22 times the peak of the buffer (indices from 0)
InterpolatedAt(buf, rate, i, y) ==
    LET a == (i * rate) \div targetSampleRate
        r == (i * rate) % targetSampleRate
    IN  IF a + 1 < Len(buf)
        THEN /\ ~y.nan
             /\ AbsLeq(ExactDiff(ExactTimes(y, targetSampleRate),
                                 ExactSum(ExactTimes(buf[a + 1], targetSampleRate - r),
                                          ExactTimes(buf[a + 2], r))),
                       ExactScaled(ExactTimes(PeakOf(buf), targetSampleRate), -22))
        ELSE y = buf[Len(buf)]

\* C26: for a capture rate other than 16000, resample returns
\* round(n * 16000 / rate) samples for n input samples, output sample i being
\* the linear interpolation between the two input samples around the source
\* index i * rate / 16000, or the last input sample where there is no right
\* neighbour; for the rate 16000 the input is returned unchanged.
C26_Resample ==
    scored.kind = "resample" =>
        IF scored.rate = targetSampleRate THEN scored.out = arg1
        ELSE /\ Len(scored.out) = RoundedLength(Len(arg1), scored.rate)
             /\ \A i \in 1..Len(scored.out) :
                    InterpolatedAt(arg1, scored.rate, i - 1, scored.out[i])

\* three different samples captured at 44100 Hz become one sample, and at
\* 8000 Hz six, the last of them without a right neighbour
C26_Witness ==
    /\ scored.kind = "resample"
    /\ arg1 = <<SampleOf(3), SampleOf(-512), NearHundredth>>
    /\ \/ scored.rate = 44100 /\ Len(scored.out) = 1
       \/ /\ scored.rate = 8000 /\ Len(scored.out) = 6
          /\ scored.out[2] \notin {SampleOf(3), SampleOf(-512)}
          /\ scored.out[6] = NearHundredth

\* an interpolated sample between two different samples at 8000 Hz
C26_WitnessBetween ==
    /\ scored.kind = "resample"
    /\ scored.rate = 8000
    /\ arg1 = <<SampleOf(3), SampleOf(-5)>>
    /\ Len(scored.out) = 4
    /\ scored.out[2] = SampleOf(-1)

\* a buffer captured at 16000 Hz after resample
C26_WitnessSameRate ==
    /\ scored.kind = "resample"
    /\ scored.rate = targetSampleRate
    /\ Len(arg1) = MaxSamples

\* C24: every buffer handed to the recognizer has at least 16000 samples: a
\* shorter non-empty input is copied unchanged into the start of a buffer
\* of 16000 samples whose other samples are all exactly zero, and an input
\* of 16000 or more samples is handed on unchanged.
C24_Padded ==
    scored.kind = "handed" =>
        /\ Len(scored.out) >= 16000
        /\ Len(arg1) > 0
        /\ IF Len(arg1) < 16000
           THEN /\ Len(scored.out) = 16000
                /\ \A i \in 1..Len(arg1) : scored.out[i] = arg1[i]
                /\ \A i \in (Len(arg1) + 1)..16000 : scored.out[i] = NumZero
           ELSE scored.out = arg1

\* a buffer of three different samples handed to the recognizer
C24_Witness ==
    /\ scored.kind = "handed"
    /\ arg1 = <<SampleOf(3), SampleOf(-512), SampleOf(-5)>>
    /\ Len(scored.out) = 16000

\* a buffer one sample short of a second handed to the recognizer
C24_WitnessShort ==
    /\ scored.kind = "handed"
    /\ Len(arg1) = 15999
    /\ scored.out # arg1

\* a buffer of more than a second handed to the recognizer
C24_WitnessLong ==
    /\ scored.kind = "handed"
    /\ Len(arg1) = 16001

\* an empty buffer and a silent one are not handed to the recognizer
C24_NotHanded ==
    (scored.kind \in {"empty", "silent"}) =>
        \A i \in 1..Len(arg1) : arg1[i] = NumZero

C27_WitnessSilence ==
    /\ whisperCall.state = "resolved"
    /\ whisperCall.finishTimers = {}
    /\ whisperCall.outputLineCount > 0
    /\ whisperCall.clock - whisperCall.lastOutputTime > 20

\* the recognizer kept printing other lines and the call timed out
C27_WitnessOutput ==
    /\ whisperCall.state = "rejected"
    /\ whisperCall.error = "timeout"
    /\ whisperCall.outputLineCount > 0

\* the interval is still armed after the timeout rejected the call
C27_IntervalLeft ==
    /\ whisperCall.state = "rejected"
    /\ whisperCall.error = "timeout"
    /\ whisperCall.checkInterval > 30

\* C36: once a transcribe call has settled through its promise, no timeout
\* and no polling interval created by the call remains armed and the output
\* callbacks it installed are cleared, on the success path, the timeout
\* path, the non-zero return-code path and the exception path alike.
C36_SettledClean ==
    (/\ whisperCall.state \in {"resolved", "rejected"}
     /\ whisperCall.error # "silent"
     /\ whisperCall.completed \/ whisperCall.error \in {"failed", "thrown"}) =>
        /\ ~whisperCall.timeout
        /\ whisperCall.checkInterval = 0
        /\ whisperCall.finishTimers = {}
        /\ ~whisperCall.callbacks

\* the same without the timers: a settled call has no output callbacks
\* installed and its 30 s timer is not armed
C36_CallbacksCleared ==
    whisperCall.state \in {"resolved", "rejected"} =>
        ~whisperCall.timeout /\ ~whisperCall.callbacks

\* a call resolved by finish() leaves no 30 s timer and no interval
C36_SuccessPathClean ==
    whisperCall.state = "resolved" =>
        ~whisperCall.timeout /\ whisperCall.checkInterval = 0

\* the call was rejected by the 30 s timer, and its interval has fired
\* again afterwards
C36_IntervalAfterTimeout ==
    /\ whisperCall.state = "rejected"
    /\ whisperCall.error = "timeout"
    /\ whisperCall.checkInterval = 32

\* the call was rejected for a non-zero return code while a 100 ms timer
\* for finish() is still armed
C36_FinishTimerAfterFailure ==
    /\ whisperCall.state = "rejected"
    /\ whisperCall.error = "failed"
    /\ whisperCall.finishTimers # {}

\* round(n * toRate / fromRate), halves rounded up as Math.round does
RoundedCount(n, fromRate, toRate) == (2 * n * toRate + fromRate) \div (2 * fromRate)

\* C37: resample never reads outside its input: for n >= 1 input samples,
\* positive rates and every output index i < round(n * toRate / fromRate),
\* the source index floor(i * fromRate / toRate) is at most n - 1; the loop
\* of resample runs over exactly these i, and no element it stores is the
\* NaN of a read past the end.
C37_ReadsInside ==
    scored.kind = "resample" =>
        /\ Len(scored.out) = RoundedCount(Len(arg1), arg2[1], arg2[2])
        /\ \A i \in 0..(Len(scored.out) - 1) :
              /\ (i * arg2[1]) \div arg2[2] <= Len(arg1) - 1
              /\ ~scored.out[i + 1].nan

\* the last output of an upsampling from rate 2 to rate 7 is the last input
\* sample
C37_Witness ==
    /\ scored.kind = "resample"
    /\ arg2 = <<2, 7>>
    /\ Len(arg1) = MaxFrames
    /\ Len(scored.out) = RoundedCount(MaxFrames, 2, 7)
    /\ scored.out[Len(scored.out)] = arg1[Len(arg1)]

\* a length that ends in one half: 3 samples from 32000 Hz to 16000 Hz
C37_WitnessHalf ==
    /\ scored.kind = "resample"
    /\ arg2 = <<32000, 16000>>
    /\ Len(arg1) = 3
    /\ Len(scored.out) = 2

\* either normalized string contains the other
Contained(t) == strIncludes(t.normalized, t.expected) \/ strIncludes(t.expected, t.normalized)

\* the edit distance is at most three tenths of the longer length
WithinThreeTenths(t) ==
    10 * levenshteinDistance(t.normalized, t.expected)
        <= 3 * Max2(Len(t.normalized), Len(t.expected))

C31_WitnessAlph ==
    /\ trial.policy = "single"
    /\ trial.transcription = Alph
    /\ trial.challenge.word = Alpha
    /\ trial.isCorrect

\* the outcome of a checkAnswer call: none when it threw
OutcomeOf(t) ==
    IF t.thrown THEN "NONE" ELSE IF t.isCorrect THEN "ACCEPTED" ELSE "REJECTED"

\* C39: when the expected word of the challenge is an entry of the city
\* list, the verdict of the open-vocabulary policy for a transcript does not
\* depend on the order of the entries: the same call on any reordering of
\* the list has the same outcome.
C39_OrderIndependent ==
    (/\ scored.kind = "reordered"
     /\ trial.policy = "cities"
     /\ arrIncludes(germanCities, currentChallenge.word)) =>
        /\ scored.other.policy = "cities"
        /\ OutcomeOf(scored.other) = OutcomeOf(trial)
        /\ Verdict = OutcomeOf(trial)

\* 'b' is as close to Bern as to Bonn; Bern stands first in one order and
\* Bonn in the other, and Bonn is accepted in both
C39_Witness ==
    /\ scored.kind = "reordered"
    /\ trial.policy = "cities"
    /\ currentChallenge.word = Bonn
    /\ germanCities = <<Bern, Bonn>>
    /\ arg2 = <<Bonn, Bern>>
    /\ trial.bestMatches = <<Bern, Bonn>>
    /\ scored.other.bestMatches = <<Bonn, Bern>>
    /\ OutcomeOf(trial) = "ACCEPTED"

\* a transcript closer to another city is rejected in both orders, with a
\* different city named first
C39_WitnessRejected ==
    /\ scored.kind = "reordered"
    /\ trial.policy = "cities"
    /\ arrIncludes(germanCities, currentChallenge.word)
    /\ germanCities # arg2
    /\ OutcomeOf(trial) = "REJECTED"
    /\ OutcomeOf(scored.other) = "REJECTED"


(***************************************************************************)
(* C35: the challenge stays the same from the start of a recording to the  *)
(* end of its evaluation.                                                  *)
(***************************************************************************)
\* a recording is running, or a stopRecording call waits for its transcript
AttemptOpen == isRecording \/ evaluating > 0

\* C35: while an attempt is open (from startRecording to the return of its
\* checkAnswer) no step replaces currentChallenge, so that the transcript
\* is evaluated against the challenge the recording started with
C35_ChallengeKept ==
    [][AttemptOpen => currentChallenge' = currentChallenge]_vars

\* C35: an advancement timer of an earlier verdict replaced the challenge
\* while the next recording was running
C35_AdvancedWhileRecording ==
    [][~(/\ isRecording /\ isRecording'
         /\ pendingAdvance' < pendingAdvance
         /\ currentChallenge' # currentChallenge)]_vars

\* C35: a setLanguage call that resumed replaced the challenge while a
\* transcript was awaited
C35_LanguageWhileEvaluating ==
    [][~(/\ evaluating > 0 /\ evaluating' = evaluating
         /\ langPending' < langPending
         /\ currentChallenge' # currentChallenge)]_vars

\* C35: the evaluation itself leaves currentChallenge alone; the challenge
\* is replaced only by the timer it arms
C35_EvaluateKeeps ==
    [][evaluating' < evaluating => currentChallenge' = currentChallenge]_vars


(***************************************************************************)
(* C38: the recording timeout and the two recording flags.                 *)
(***************************************************************************)
\* the position in events of the start signal of the running recording
RunningStart ==
    CHOOSE i \in 0..Len(events) :
        /\ i = 0 \/ events[i] = StartSignal
        /\ \A j \in (i + 1)..Len(events) : events[j] # StartSignal

C38_WitnessStopped ==
    /\ ~isRecording
    /\ ~audioProcessor.recording
    /\ Len(events) > 0 /\ events[Len(events)] = StopSignal
    /\ timers = NoTimers


(***************************************************************************)
(* C40: the four languages after overlapping setLanguage calls.            *)
(***************************************************************************)
\* the current language (the one requested last), the stored one and those
\* of recognizer and speech output are the same
LanguagesAgree ==
    /\ languageSettings.persisted = currentLanguage
    /\ languageSettings.whisperSTT = currentLanguage
    /\ languageSettings.espeakTTS = currentLanguage

\* C40: once no setLanguage call is pending, current language, stored
\* language, recognizer language and speech language all equal the
\* language requested last
C40_Converges == pendingCalls = <<>> => LanguagesAgree

\* C40: the same when the call that settled last was not rejected
C40_ConvergesWhenSaved ==
    pendingCalls = <<>> /\ ~languageSettings.rejected => LanguagesAgree

\* C40: a rejected call left the current language apart from the others
C40_LeftApart ==
    /\ pendingCalls = <<>>
    /\ languageSettings.rejected
    /\ languageSettings.whisperSTT # currentLanguage
    /\ languageSettings.persisted # currentLanguage


(***************************************************************************)
(* C32: a new release takes over the open page only after 'Update Now'.    *)
(***************************************************************************)
\* the step is the page's controllerchange listener reloading the page
Reloads ==
    /\ page.queue # <<>>
    /\ Head(page.queue) = "controllerchange"
    /\ page'.queue = <<>>

\* C32: a release takes control of the open page, and the page is
\* reloaded for it, only after the user clicked 'Update Now' while it was
\* waiting; with the banner dismissed or ignored the old worker stays
C32_NoForcedUpdate ==
    [][(page'.controller # page.controller \/ Reloads)
          => registration'.active \in page.consented]_vars

\* C32: a release whose install handler failed to cache the core assets
\* (and so did not call skipWaiting) takes control only after 'Update Now'
C32_WaitsIfNotCached ==
    [][page'.controller # page.controller
              /\ page'.controller \notin page.consented
          => match(SelectSeq(caches', LAMBDA c :
                                 c.name = CACHE_NAME(page'.controller)),
                   "index.html") # 0]_vars

\* C32: release 2 controls the page, which was reloaded for it, and
\* 'Update Now' was never clicked
C32_TakenOver ==
    /\ page.controller = 2
    /\ page.queue = <<>>
    /\ page.consented = {}
    /\ 2 \notin page.watching
    /\ deployed = 2

(***************************************************************************)
(* C33: the fetch handler.                                                 *)
(***************************************************************************)
\* the step handles a fetch event
Handles == fetchEvent' # fetchEvent

\* some cache held a response for url before the step
Held(url) == \E i \in 1..Len(caches) : caches[i].entries[url] # 0

\* the step stored the response for url in the handling worker's runtime
\* cache, and changed nothing else
StoresInRuntime(url) ==
    caches' = putAll(caches, RUNTIME_CACHE(fetchEvent'.worker), {url},
                     fetchEvent'.worker)

\* what the claim says of a same-origin GET that no cache holds
FromNetwork ==
    /\ fetchEvent'.contacted
    /\ fetchEvent'.returned = "network"
    /\ IF fetchEvent'.network.status = 200
       THEN StoresInRuntime(fetchEvent'.request.url)
       ELSE caches' = caches

\* what the handler does when fetch rejects: the cached index.html for a
\* document, if there is one, and a 503 of its own for anything else
OfflineFallback ==
    /\ fetchEvent'.contacted
    /\ caches' = caches
    /\ IF fetchEvent'.request.destination = "document"
       THEN fetchEvent'.returned =
                IF Held("index.html") THEN "index.html" ELSE "undefined"
       ELSE fetchEvent'.returned = "503"

\* C33, as stated: a same-origin GET is answered from the cache without
\* the network when a cached response exists, otherwise by the network
\* response, stored in the runtime cache only if its status is 200 ...
C33_NetworkOtherwise ==
    [][Handles /\ fetchEvent'.request.sameOrigin
              /\ fetchEvent'.request.method = "GET"
              /\ ~Held(fetchEvent'.request.url)
          => FromNetwork]_vars

\* C33: cross-origin and non-GET requests are not intercepted; a same-origin
\* GET with a cached response is answered with it, the network not being
\* contacted; without one the network is asked: its response is returned,
\* and stored in the runtime cache if and only if its status is 200; and
\* if the network request fails the answer is the cached index.html for a
\* document and a 503 response otherwise
C33_CacheFirst ==
    [][Handles =>
          IF ~fetchEvent'.request.sameOrigin
                 \/ fetchEvent'.request.method # "GET"
          THEN ~fetchEvent'.intercepted /\ ~fetchEvent'.contacted
                   /\ caches' = caches
          ELSE /\ fetchEvent'.intercepted
               /\ IF Held(fetchEvent'.request.url)
                  THEN /\ fetchEvent'.returned = "cached"
                       /\ ~fetchEvent'.contacted
                       /\ caches' = caches
                  ELSE IF fetchEvent'.network.resolved
                  THEN FromNetwork
                  ELSE OfflineFallback]_vars

\* C33: a response with status 200 was fetched and stored
C33_Witness ==
    /\ fetchEvent.returned = "network"
    /\ fetchEvent.network.status = 200
    /\ fetchEvent.stored
    /\ match(caches, fetchEvent.request.url) = fetchEvent.worker

\* C33: a response with status 404 was returned and not stored
C33_WitnessNotStored ==
    /\ fetchEvent.returned = "network"
    /\ fetchEvent.network.status = 404
    /\ match(caches, fetchEvent.request.url) = 0

\* C33: a cached response was returned
C33_WitnessCached ==
    /\ fetchEvent.returned = "cached"
    /\ ~fetchEvent.contacted

\* C33: the network request failed and index.html was returned for
\* another document
C33_WitnessOffline ==
    /\ fetchEvent.returned = "index.html"
    /\ fetchEvent.request.url = "clear-cache.html"

\* C33: a request to another origin was left to the browser
C33_WitnessNotIntercepted ==
    /\ fetchEvent.worker # 0
    /\ ~fetchEvent.request.sameOrigin
    /\ ~fetchEvent.intercepted

=========================================================================
